---------------------------- MODULE Spec2Model ----------------------------
(***************************************************************************)
(* A model of ahead-rev-sim: the reversible register machine               *)
(* (machine.py), its memories (memory.py, reversible_memory.py), the       *)
(* history buffer (history.py) and the time-travel debugger (debugger.py). *)
(*                                                                         *)
(* Objects are records whose fields carry the names of the Python fields.  *)
(* Every method is an operator from the object (and its arguments) to the  *)
(* object after the call, together with what the call returned or raised;  *)
(* every action applies one method to the state.  An optional field        *)
(* (Python's None) is a sequence of length 0 or 1.                         *)
(***************************************************************************)
EXTENDS Integers, Sequences, FiniteSets, TLC

\* ------------------------------------------------------------------------
\* Bounds of the model.
\* ------------------------------------------------------------------------

\* Width of a machine word in the model.  The source masks with 0xFFFFFFFF
\* (32 bits); the model keeps the same arithmetic modulo 2^WordBits.
WordBits == 8

\* Length of the register file (the source's default is 32).
NumRegs == 4

\* step() and reverse_step() calls explored over the lifetime of a machine.
MaxCalls == 8

\* load_program calls explored over the lifetime of a machine.
MaxLoads == 2

\* Calls explored on a ReversibleMemory.
MaxMemCalls == 4

\* parse calls explored on an AssemblyParser.
MaxParseCalls == 3

\* Calls explored on a MemoryController.
MaxCtrlCalls == 4

\* Calls explored on a HistoryBuffer.
MaxHistCalls == 4

\* Watchpoints added to a debugger.
MaxWatchpoints == 2

\* run_until_violation calls explored on a debugger.
MaxDbgCalls == 2

\* The largest max_steps a run_until_violation call is given (the source's
\* default is 10000).
MaxRunSteps == 7

\* step() and run() calls explored on a machine that is driven with run().
MaxRunCalls == 3

\* The longest execution a single run() call is followed through: run() with
\* no cap, or with a cap beyond this, is explored on machines that halt or
\* fail within this many steps.
MaxRunLength == 100

\* The cap of the run of examples/run_loop.py and tests/test_basic.py.
S2MaxSteps == 1000

Mod == 2 ^ WordBits
Mask == Mod - 1

\* ------------------------------------------------------------------------
\* Helpers
\* ------------------------------------------------------------------------

None == << >>
Some(x) == << x >>
IsNone(o) == o = << >>
Get(o) == o[1]

Last(s) == s[Len(s)]
Front(s) == SubSeq(s, 1, Len(s) - 1)

\* Python's a & 0xFFFFFFFF on an integer of either sign.
And32(a) == a % Mod

\* Python's a ^ b on two non-negative integers.
RECURSIVE Xor(_, _)
Xor(a, b) ==
    IF a = 0 THEN b
    ELSE IF b = 0 THEN a
    ELSE 2 * Xor(a \div 2, b \div 2) + ((a + b) % 2)

\* dict.get(key, default)
DictGet(d, k, default) == IF k \in DOMAIN d THEN d[k] ELSE default

\* d[key] = value
DictSet(d, k, v) == [x \in (DOMAIN d) \cup {k} |-> IF x = k THEN v ELSE d[x]]

EmptyDict == [x \in {} |-> 0]

\* ------------------------------------------------------------------------
\* isa.py
\* ------------------------------------------------------------------------

OpCode == {"RXOR", "RADD", "RSWAP", "BEQ", "ADD", "SUB", "STORE", "LOAD", "HALT"}

Instruction(op, rd, rs1, rs2, imm, label) ==
    [op |-> op, rd |-> rd, rs1 |-> rs1, rs2 |-> rs2, imm |-> imm, label |-> label]

reversible(instr) == instr.op \in {"RXOR", "RADD", "RSWAP", "BEQ"}

\* ------------------------------------------------------------------------
\* memory.py
\* ------------------------------------------------------------------------

Memory_load_word(data, addr) == DictGet(data, addr, 0)

Memory_store_word(data, addr, value) == DictSet(data, addr, value)

\* ------------------------------------------------------------------------
\* energy.py: total_energy is kept in tenths of a unit, so that
\* reversible_cost = 0.1 is 1 and irreversible_cost = 1.0 is 10.
\* ------------------------------------------------------------------------

reversible_cost == 1
irreversible_cost == 10

charge_reversible(energy) == energy + reversible_cost
\* charge_irreversible that charges the reversible cost.
charge_irreversible_at_reversible_cost(energy) == energy + reversible_cost

charge_irreversible(energy) == energy + irreversible_cost

\* ------------------------------------------------------------------------
\* metrics.py
\* ------------------------------------------------------------------------

ReversibilityMetrics ==
    [reversible_count |-> 0, irreversible_count |-> 0, per_op_counts |-> EmptyDict]

\* record that keeps the two totals but not the count of the opcode.
record_totals_only(metrics, op, rev) ==
    [reversible_count   |-> metrics.reversible_count + (IF rev THEN 1 ELSE 0),
     irreversible_count |-> metrics.irreversible_count + (IF rev THEN 0 ELSE 1),
     per_op_counts      |-> metrics.per_op_counts]

record(metrics, op, rev) ==
    [reversible_count   |-> metrics.reversible_count + (IF rev THEN 1 ELSE 0),
     irreversible_count |-> metrics.irreversible_count + (IF rev THEN 0 ELSE 1),
     per_op_counts      |-> DictSet(metrics.per_op_counts, op,
                                    DictGet(metrics.per_op_counts, op, 0) + 1)]

\* ------------------------------------------------------------------------
\* machine.py
\* ------------------------------------------------------------------------

Regs == 0 .. (NumRegs - 1)

\* Machine(): the dataclass defaults.
Machine ==
    [num_regs  |-> NumRegs,
     registers |-> [r \in Regs |-> 0],
     pc        |-> 0,
     program   |-> << >>,
     memory    |-> EmptyDict,
     energy    |-> 0,
     metrics   |-> ReversibilityMetrics,
     labels    |-> EmptyDict,
     exec_log  |-> << >>,
     halted    |-> FALSE]

\* Machine(num_regs=n): the default of registers does not read num_regs.
MachineWith(num_regs) == [Machine EXCEPT !.num_regs = num_regs]

\* What a call did: the machine after it, and the exception it raised ("" when
\* it returned normally).
Returned(m) == [m |-> m, raised |-> ""]
Raised(m, exc) == [m |-> m, raised |-> exc]

\* load_program without self.exec_log.clear().
load_program_keeps_log(m, program, labels) ==
    [m EXCEPT !.program  = program,
              !.pc       = 0,
              !.halted   = FALSE,
              !.metrics  = ReversibilityMetrics,
              !.labels   = IF IsNone(labels) THEN m.labels ELSE Get(labels)]

\* load_program that also zeroes the register file.
load_program_clears_registers(m, program, labels) ==
    [m EXCEPT !.program   = program,
              !.pc        = 0,
              !.exec_log  = << >>,
              !.halted    = FALSE,
              !.metrics   = ReversibilityMetrics,
              !.registers = [r \in Regs |-> 0],
              !.labels    = IF IsNone(labels) THEN m.labels ELSE Get(labels)]

load_program(m, program, labels) ==
    [m EXCEPT !.program  = program,
              !.pc       = 0,
              !.exec_log = << >>,
              !.halted   = FALSE,
              !.metrics  = ReversibilityMetrics,
              !.labels   = IF IsNone(labels) THEN m.labels ELSE Get(labels)]

\* The label's PC as Some(pc), or None where the source raises ValueError.
resolve_label(m, label) ==
    IF IsNone(label) THEN None
    ELSE IF Get(label) \in DOMAIN m.labels THEN Some(m.labels[Get(label)])
    ELSE None

\* _exec_beq that appends its log entry only when the branch is taken.
exec_beq_logs_taken_only(m, instr) ==
    LET val1  == m.registers[Get(instr.rs1)]
        val2  == m.registers[Get(instr.rs2)]
        taken == (val1 = val2)
        snapshot == Some([taken |-> taken, from_pc |-> m.pc])
        m1 == [m EXCEPT !.exec_log = IF taken
                                     THEN Append(m.exec_log, << m.pc, instr, snapshot >>)
                                     ELSE m.exec_log,
                        !.energy   = charge_reversible(m.energy),
                        !.metrics  = record(m.metrics, instr.op, TRUE)]
        target_pc == resolve_label(m1, instr.label)
    IN  IF taken
        THEN IF IsNone(target_pc)
             THEN Raised(m1, "ValueError")
             ELSE Returned([m1 EXCEPT !.pc = Get(target_pc)])
        ELSE Returned([m1 EXCEPT !.pc = m1.pc + 1])

\* _exec_beq whose snapshot says taken whatever the comparison gave.
exec_beq_records_taken(m, instr) ==
    LET val1  == m.registers[Get(instr.rs1)]
        val2  == m.registers[Get(instr.rs2)]
        taken == (val1 = val2)
        snapshot == Some([taken |-> TRUE, from_pc |-> m.pc])
        m1 == [m EXCEPT !.exec_log = Append(m.exec_log, << m.pc, instr, snapshot >>),
                        !.energy   = charge_reversible(m.energy),
                        !.metrics  = record(m.metrics, instr.op, TRUE)]
        target_pc == resolve_label(m1, instr.label)
    IN  IF taken
        THEN IF IsNone(target_pc)
             THEN Raised(m1, "ValueError")
             ELSE Returned([m1 EXCEPT !.pc = Get(target_pc)])
        ELSE Returned([m1 EXCEPT !.pc = m1.pc + 1])

exec_beq(m, instr) ==
    LET val1  == m.registers[Get(instr.rs1)]
        val2  == m.registers[Get(instr.rs2)]
        taken == (val1 = val2)
        snapshot == Some([taken |-> taken, from_pc |-> m.pc])
        m1 == [m EXCEPT !.exec_log = Append(m.exec_log, << m.pc, instr, snapshot >>),
                        !.energy   = charge_reversible(m.energy),
                        !.metrics  = record(m.metrics, instr.op, TRUE)]
        target_pc == resolve_label(m1, instr.label)
    IN  IF taken
        THEN IF IsNone(target_pc)
             THEN Raised(m1, "ValueError")
             ELSE Returned([m1 EXCEPT !.pc = Get(target_pc)])
        ELSE Returned([m1 EXCEPT !.pc = m1.pc + 1])

\* exec_reversible whose RADD adds without masking to the word.
exec_reversible_unmasked(m, instr) ==
    LET rd  == Get(instr.rd)
        rs1 == Get(instr.rs1)
        r   == m.registers
    IN  CASE instr.op = "RXOR"  -> [r EXCEPT ![rd] = Xor(r[rd], r[rs1])]
          [] instr.op = "RADD"  -> [r EXCEPT ![rd] = r[rd] + r[rs1]]
          [] instr.op = "RSWAP" -> [[r EXCEPT ![rd] = r[rs1]] EXCEPT ![rs1] = r[rd]]

\* The register file after the forward execution of RXOR, RADD or RSWAP.
exec_reversible(m, instr) ==
    LET rd  == Get(instr.rd)
        rs1 == Get(instr.rs1)
        r   == m.registers
    IN  CASE instr.op = "RXOR"  -> [r EXCEPT ![rd] = Xor(r[rd], r[rs1])]
          [] instr.op = "RADD"  -> [r EXCEPT ![rd] = And32(r[rd] + r[rs1])]
          [] instr.op = "RSWAP" -> [[r EXCEPT ![rd] = r[rs1]] EXCEPT ![rs1] = r[rd]]

\* undo_reversible whose RADD undo adds again instead of subtracting.
undo_reversible_adds(m, instr) ==
    LET rd  == Get(instr.rd)
        rs1 == Get(instr.rs1)
        r   == m.registers
    IN  CASE instr.op = "RXOR"  -> [r EXCEPT ![rd] = Xor(r[rd], r[rs1])]
          [] instr.op = "RADD"  -> [r EXCEPT ![rd] = And32(r[rd] + r[rs1])]
          [] instr.op = "RSWAP" -> [[r EXCEPT ![rd] = r[rs1]] EXCEPT ![rs1] = r[rd]]

\* The register file after the undo of RXOR, RADD or RSWAP.
undo_reversible(m, instr) ==
    LET rd  == Get(instr.rd)
        rs1 == Get(instr.rs1)
        r   == m.registers
    IN  CASE instr.op = "RXOR"  -> [r EXCEPT ![rd] = Xor(r[rd], r[rs1])]
          [] instr.op = "RADD"  -> [r EXCEPT ![rd] = And32(r[rd] - r[rs1])]
          [] instr.op = "RSWAP" -> [[r EXCEPT ![rd] = r[rs1]] EXCEPT ![rs1] = r[rd]]

\* The second operand of ADD and SUB: imm when it is present, else r[rs2].
operand2(m, instr) ==
    IF ~IsNone(instr.imm) THEN Get(instr.imm) ELSE m.registers[Get(instr.rs2)]

\* instr.imm or 0
imm_or_0(instr) == IF IsNone(instr.imm) THEN 0 ELSE Get(instr.imm)

exec_irreversible(m, instr) ==
    LET r == m.registers
    IN  CASE instr.op = "ADD" ->
               [m EXCEPT !.registers[Get(instr.rd)] =
                   And32(r[Get(instr.rs1)] + operand2(m, instr))]
          [] instr.op = "SUB" ->
               [m EXCEPT !.registers[Get(instr.rd)] =
                   And32(r[Get(instr.rs1)] - operand2(m, instr))]
          [] instr.op = "LOAD" ->
               [m EXCEPT !.registers[Get(instr.rd)] =
                   Memory_load_word(m.memory, r[Get(instr.rs1)] + imm_or_0(instr))]
          [] instr.op = "STORE" ->
               [m EXCEPT !.memory =
                   Memory_store_word(m.memory, r[Get(instr.rs1)] + imm_or_0(instr),
                                     r[Get(instr.rs2)])]
          [] instr.op = "HALT" ->
               [m EXCEPT !.halted = TRUE]

\* step without the early return of a halted machine.
step_ignores_halted(m) ==
    IF ~(0 <= m.pc /\ m.pc < Len(m.program)) THEN Raised(m, "IndexError")
    ELSE
      LET instr == m.program[m.pc + 1]
      IN  IF instr.op = "BEQ" THEN exec_beq(m, instr)
          ELSE
            LET m1 == IF reversible(instr)
                      THEN [m EXCEPT
                              !.registers = exec_reversible(m, instr),
                              !.exec_log  = Append(m.exec_log, << m.pc, instr, None >>),
                              !.energy    = charge_reversible(m.energy),
                              !.metrics   = record(m.metrics, instr.op, TRUE)]
                      ELSE LET m0 == exec_irreversible(m, instr)
                           IN  [m0 EXCEPT
                                 !.energy  = charge_irreversible(m0.energy),
                                 !.metrics = record(m0.metrics, instr.op, FALSE)]
            IN  Returned(IF instr.op # "HALT" THEN [m1 EXCEPT !.pc = m1.pc + 1] ELSE m1)

step(m) ==
    IF m.halted THEN Returned(m)
    ELSE IF ~(0 <= m.pc /\ m.pc < Len(m.program)) THEN Raised(m, "IndexError")
    ELSE
      LET instr == m.program[m.pc + 1]
      IN  IF instr.op = "BEQ" THEN exec_beq(m, instr)
          ELSE
            LET m1 == IF reversible(instr)
                      THEN [m EXCEPT
                              !.registers = exec_reversible(m, instr),
                              !.exec_log  = Append(m.exec_log, << m.pc, instr, None >>),
                              !.energy    = charge_reversible(m.energy),
                              !.metrics   = record(m.metrics, instr.op, TRUE)]
                      ELSE LET m0 == exec_irreversible(m, instr)
                           IN  [m0 EXCEPT
                                 !.energy  = charge_irreversible(m0.energy),
                                 !.metrics = record(m0.metrics, instr.op, FALSE)]
            IN  Returned(IF instr.op # "HALT" THEN [m1 EXCEPT !.pc = m1.pc + 1] ELSE m1)

\* reverse_step that restores the PC of a BEQ from the PC after the branch
\* (from_pc + 1) instead of from_pc.
reverse_step_beq_off_by_one(m) ==
    IF m.exec_log = << >> THEN m
    ELSE
      LET entry    == Last(m.exec_log)
          pc       == entry[1]
          instr    == entry[2]
          snapshot == entry[3]
          m1       == [m EXCEPT !.exec_log = Front(m.exec_log)]
      IN  IF instr.op = "BEQ"
          THEN [m1 EXCEPT !.pc = Get(snapshot).from_pc + 1]
          ELSE [m1 EXCEPT !.registers = undo_reversible(m1, instr), !.pc = pc]

\* reverse_step that rewinds the PC to 0 when the log is empty.
reverse_step_empty_resets_pc(m) ==
    IF m.exec_log = << >> THEN [m EXCEPT !.pc = 0]
    ELSE
      LET entry    == Last(m.exec_log)
          pc       == entry[1]
          instr    == entry[2]
          snapshot == entry[3]
          m1       == [m EXCEPT !.exec_log = Front(m.exec_log)]
      IN  IF instr.op = "BEQ"
          THEN [m1 EXCEPT !.pc = Get(snapshot).from_pc]
          ELSE [m1 EXCEPT !.registers = undo_reversible(m1, instr), !.pc = pc]

\* reverse_step that clears the halted flag when it undoes an entry.
reverse_step_clears_halted(m) ==
    IF m.exec_log = << >> THEN m
    ELSE
      LET entry    == Last(m.exec_log)
          pc       == entry[1]
          instr    == entry[2]
          snapshot == entry[3]
          m1       == [m EXCEPT !.exec_log = Front(m.exec_log), !.halted = FALSE]
      IN  IF instr.op = "BEQ"
          THEN [m1 EXCEPT !.pc = Get(snapshot).from_pc]
          ELSE [m1 EXCEPT !.registers = undo_reversible(m1, instr), !.pc = pc]

\* reverse_step that takes the oldest entry of the log (exec_log.pop(0)).
reverse_step_pops_first(m) ==
    IF m.exec_log = << >> THEN m
    ELSE
      LET entry    == Head(m.exec_log)
          pc       == entry[1]
          instr    == entry[2]
          snapshot == entry[3]
          m1       == [m EXCEPT !.exec_log = Tail(m.exec_log)]
      IN  IF instr.op = "BEQ"
          THEN [m1 EXCEPT !.pc = Get(snapshot).from_pc]
          ELSE [m1 EXCEPT !.registers = undo_reversible(m1, instr), !.pc = pc]

\* reverse_step that gives back the energy of the step it undoes.
reverse_step_refunds(m) ==
    IF m.exec_log = << >> THEN m
    ELSE
      LET entry    == Last(m.exec_log)
          pc       == entry[1]
          instr    == entry[2]
          snapshot == entry[3]
          m1       == [m EXCEPT !.exec_log = Front(m.exec_log),
                               !.energy   = m.energy - reversible_cost]
      IN  IF instr.op = "BEQ"
          THEN [m1 EXCEPT !.pc = Get(snapshot).from_pc]
          ELSE [m1 EXCEPT !.registers = undo_reversible(m1, instr), !.pc = pc]

reverse_step(m) ==
    IF m.exec_log = << >> THEN m
    ELSE
      LET entry    == Last(m.exec_log)
          pc       == entry[1]
          instr    == entry[2]
          snapshot == entry[3]
          m1       == [m EXCEPT !.exec_log = Front(m.exec_log)]
      IN  IF instr.op = "BEQ"
          THEN [m1 EXCEPT !.pc = Get(snapshot).from_pc]
          ELSE [m1 EXCEPT !.registers = undo_reversible(m1, instr), !.pc = pc]

\* What run did: the machine after it, the exception it let through ("" when
\* it returned) and the step() calls that returned; run returns that count.
RunResult(m, raised, steps) == [m |-> m, raised |-> raised, steps |-> steps]

\* The state of the loop of run: the machine, the exception that left the
\* loop, the local variable steps, and whether the loop has been left.
RunLoop(m, raised, steps, done) ==
    [m |-> m, raised |-> raised, steps |-> steps, done |-> done]

\* One turn of the loop of run where an exception of step() leaves the loop
\* without reaching the caller.
run_body_swallows(s, max_steps) ==
    IF s.done THEN s
    ELSE IF s.m.halted THEN [s EXCEPT !.done = TRUE]
    ELSE
      LET r == step(s.m)
      IN  IF r.raised # "" THEN RunLoop(r.m, "", s.steps, TRUE)
          ELSE RunLoop(r.m, "", s.steps + 1,
                       ~IsNone(max_steps) /\ s.steps + 1 >= Get(max_steps))

\* One turn of the loop of run: the test of `while not self.halted`, and the
\* body when the test passes.
run_body(s, max_steps) ==
    IF s.done THEN s
    ELSE IF s.m.halted THEN [s EXCEPT !.done = TRUE]
    ELSE
      LET r == step(s.m)
      IN  IF r.raised # "" THEN RunLoop(r.m, r.raised, s.steps, TRUE)
          ELSE RunLoop(r.m, "", s.steps + 1,
                       ~IsNone(max_steps) /\ s.steps + 1 >= Get(max_steps))

\* n turns of the loop of run, or fewer when the loop is left before.  (The
\* turns are split in halves to keep the evaluation shallow.)
RECURSIVE run_loop(_, _, _)
run_loop(s, max_steps, n) ==
    IF n <= 1 THEN run_body(s, max_steps)
    ELSE LET s1 == run_loop(s, max_steps, n \div 2)
         IN  IF s1.done THEN s1 ELSE run_loop(s1, max_steps, n - (n \div 2))

\* run that gives up after its first step.
run_stops_after_first_step(m, max_steps) ==
    LET s == run_loop(RunLoop(m, "", 0, FALSE), Some(1), MaxRunLength + 1)
    IN  RunResult(s.m, s.raised, s.steps)

\* m.run(max_steps); max_steps None is the call m.run().  The loop is followed
\* for MaxRunLength steps and the test that ends it.
run(m, max_steps) ==
    LET s == run_loop(RunLoop(m, "", 0, FALSE), max_steps, MaxRunLength + 1)
    IN  RunResult(s.m, s.raised, s.steps)

\* ------------------------------------------------------------------------
\* reversible_memory.py
\* ------------------------------------------------------------------------

MemoryRegionType == {"STANDARD", "REVERSIBLE", "MIXED"}

\* ReversibleMemory(): the dataclass defaults.
ReversibleMemory ==
    [data                |-> EmptyDict,
     regions             |-> << >>,
     default_type        |-> "STANDARD",
     exchange_log        |-> << >>,
     reversible_accesses |-> 0,
     standard_accesses   |-> 0]

\* What a method of an object did: the object after it and the value returned.
Result(obj, ret) == [obj |-> obj, ret |-> ret]

configure_region(mem, start, end, region_type) ==
    [mem EXCEPT !.regions = Append(mem.regions, << start, end, region_type >>)]

\* The loop of get_region_type where a later matching range overrides an
\* earlier one.
RECURSIVE last_region(_, _, _, _)
last_region(regions, i, addr, default) ==
    IF i > Len(regions) THEN default
    ELSE IF regions[i][1] <= addr /\ addr < regions[i][2]
    THEN last_region(regions, i + 1, addr, regions[i][3])
    ELSE last_region(regions, i + 1, addr, default)

RECURSIVE first_region(_, _, _, _)
first_region(regions, i, addr, default) ==
    IF i > Len(regions) THEN default
    ELSE IF regions[i][1] <= addr /\ addr < regions[i][2] THEN regions[i][3]
    ELSE first_region(regions, i + 1, addr, default)

get_region_type(mem, addr) == first_region(mem.regions, 1, addr, mem.default_type)

load_word(mem, addr) ==
    Result([mem EXCEPT !.standard_accesses = mem.standard_accesses + 1],
           DictGet(mem.data, addr, 0))

store_word(mem, addr, value) ==
    [mem EXCEPT !.standard_accesses = mem.standard_accesses + 1,
                !.data = DictSet(mem.data, addr, And32(value))]

\* exchange that reads the word back after writing it.
exchange_reads_after_write(mem, addr, reg_value) ==
    Result([mem EXCEPT !.reversible_accesses = mem.reversible_accesses + 1,
                       !.data = DictSet(mem.data, addr, And32(reg_value)),
                       !.exchange_log = Append(mem.exchange_log,
                                               << addr, And32(reg_value), reg_value >>)],
           And32(reg_value))

exchange(mem, addr, reg_value) ==
    LET old_mem == DictGet(mem.data, addr, 0)
    IN  Result([mem EXCEPT !.reversible_accesses = mem.reversible_accesses + 1,
                           !.data = DictSet(mem.data, addr, And32(reg_value)),
                           !.exchange_log = Append(mem.exchange_log,
                                                   << addr, old_mem, reg_value >>)],
               old_mem)

reverse_exchange(mem, addr, reg_value) == exchange(mem, addr, reg_value)

\* MemoryController(): the dataclass defaults.
MemoryController ==
    [memory        |-> ReversibleMemory,
     hot_requests  |-> 0,
     cold_requests |-> 0,
     hot_latency   |-> 1,
     cold_latency  |-> 2,
     total_cycles  |-> 0]

\* MemoryController(hot_latency=h, cold_latency=c)
MemoryControllerWith(hot_latency, cold_latency) ==
    [MemoryController EXCEPT !.hot_latency = hot_latency, !.cold_latency = cold_latency]

\* Returns (value, latency).
hot_load(c, addr) ==
    LET r == load_word(c.memory, addr)
    IN  Result([c EXCEPT !.hot_requests = c.hot_requests + 1,
                         !.total_cycles = c.total_cycles + c.hot_latency,
                         !.memory       = r.obj],
               << r.ret, c.hot_latency >>)

\* Returns the latency.
hot_store(c, addr, value) ==
    Result([c EXCEPT !.hot_requests = c.hot_requests + 1,
                     !.total_cycles = c.total_cycles + c.hot_latency,
                     !.memory       = store_word(c.memory, addr, value)],
           c.hot_latency)

\* cold_exchange that charges the latency of the hot path.
cold_exchange_at_hot_latency(c, addr, reg_value) ==
    LET r == exchange(c.memory, addr, reg_value)
    IN  Result([c EXCEPT !.cold_requests = c.cold_requests + 1,
                         !.total_cycles  = c.total_cycles + c.hot_latency,
                         !.memory        = r.obj],
               << r.ret, c.cold_latency >>)

\* Returns (old_mem_value, latency).
cold_exchange(c, addr, reg_value) ==
    LET r == exchange(c.memory, addr, reg_value)
    IN  Result([c EXCEPT !.cold_requests = c.cold_requests + 1,
                         !.total_cycles  = c.total_cycles + c.cold_latency,
                         !.memory        = r.obj],
               << r.ret, c.cold_latency >>)

\* ------------------------------------------------------------------------
\* history.py
\* ------------------------------------------------------------------------

EntryType == {"BRANCH_DECISION", "BRANCH_SOURCE", "REVERSIBLE_OP", "IRREVERSIBLE_OP"}

HistoryEntry(pc, op_name, entry_type, payload) ==
    [pc |-> pc, op_name |-> op_name, entry_type |-> entry_type, payload |-> payload]

\* bit_cost that leaves out the taken bit of a branch decision.
bit_cost_without_taken_bit(entry) ==
    IF entry.entry_type = "BRANCH_DECISION" THEN 32
    ELSE IF entry.entry_type = "BRANCH_SOURCE" THEN 32
    ELSE IF entry.entry_type = "REVERSIBLE_OP" THEN 8
    ELSE 0

bit_cost(entry) ==
    IF entry.entry_type = "BRANCH_DECISION" THEN 1 + 32
    ELSE IF entry.entry_type = "BRANCH_SOURCE" THEN 32
    ELSE IF entry.entry_type = "REVERSIBLE_OP" THEN 8
    ELSE 0

\* HistoryBuffer(): the dataclass defaults.
HistoryBuffer ==
    [entries        |-> << >>,
     max_depth      |-> 0,
     max_bits       |-> 0,
     counts_by_type |-> EmptyDict,
     bits_by_type   |-> EmptyDict,
     depth_timeline |-> << >>]

\* sum(e.bit_cost for e in entries)
RECURSIVE sum_bit_cost(_)
sum_bit_cost(entries) ==
    IF entries = << >> THEN 0
    ELSE bit_cost(entries[1]) + sum_bit_cost(Tail(entries))

\* sum(d.values())
RECURSIVE sum_values(_)
sum_values(d) ==
    IF DOMAIN d = {} THEN 0
    ELSE LET k == CHOOSE x \in DOMAIN d : TRUE
         IN  d[k] + sum_values([x \in (DOMAIN d) \ {k} |-> d[x]])

current_depth(h) == Len(h.entries)
current_bits(h) == sum_bit_cost(h.entries)
total_entries_ever(h) == sum_values(h.counts_by_type)
total_bits_ever(h) == sum_values(h.bits_by_type)

push(h, pc, op_name, entry_type, payload) ==
    LET entry   == HistoryEntry(pc, op_name, entry_type, payload)
        entries == Append(h.entries, entry)
        depth   == Len(entries)
        bits    == sum_bit_cost(entries)
    IN  [h EXCEPT
           !.entries        = entries,
           !.counts_by_type = DictSet(h.counts_by_type, entry_type,
                                      DictGet(h.counts_by_type, entry_type, 0) + 1),
           !.bits_by_type   = DictSet(h.bits_by_type, entry_type,
                                      DictGet(h.bits_by_type, entry_type, 0)
                                        + bit_cost(entry)),
           !.max_depth      = IF depth > h.max_depth THEN depth ELSE h.max_depth,
           !.max_bits       = IF bits > h.max_bits THEN bits ELSE h.max_bits]

\* pop that lowers the high-water marks to what is left in the buffer.
pop_lowers_marks(h) ==
    IF h.entries = << >> THEN Result(h, None)
    ELSE LET entries == Front(h.entries)
         IN  Result([h EXCEPT !.entries   = entries,
                              !.max_depth = Len(entries),
                              !.max_bits  = sum_bit_cost(entries)],
                    Some(Last(h.entries)))

pop(h) ==
    IF h.entries = << >> THEN Result(h, None)
    ELSE Result([h EXCEPT !.entries = Front(h.entries)], Some(Last(h.entries)))

record_snapshot(h, step_no) ==
    [h EXCEPT !.depth_timeline = Append(h.depth_timeline, << step_no, Len(h.entries) >>)]

\* ------------------------------------------------------------------------
\* debugger.py
\* ------------------------------------------------------------------------

Watchpoint(name, register, condition) ==
    [name |-> name, register |-> register, condition |-> condition]

\* The predicates of watch_equals and watch_range.
NotEqual(expected) == [kind |-> "!=", expected |-> expected, lo |-> 0, hi |-> 0]
Outside(lo, hi) == [kind |-> "outside", expected |-> 0, lo |-> lo, hi |-> hi]

\* wp.condition(value)
condition(c, value) ==
    IF c.kind = "!=" THEN value # c.expected
    ELSE value < c.lo \/ value > c.hi

\* TimeTraveDebugger(machine)
TimeTraveDebugger ==
    [watchpoints |-> << >>,
     history     |-> HistoryBuffer,
     step_count  |-> 0,
     violations  |-> << >>]

add_watchpoint(d, name, register, cond) ==
    [d EXCEPT !.watchpoints = Append(d.watchpoints, Watchpoint(name, register, cond))]

watch_equals(d, register, expected) ==
    add_watchpoint(d, "==", register, NotEqual(expected))

watch_range(d, register, lo, hi) ==
    add_watchpoint(d, "range", register, Outside(lo, hi))

\* The loop of _check_watchpoints from watchpoint i on.  A watchpoint is
\* returned, and logged, as its position in self.watchpoints.
RECURSIVE check_from(_, _, _)
check_from(d, m, i) ==
    IF i > Len(d.watchpoints) THEN Result(d, None)
    ELSE LET wp    == d.watchpoints[i]
             value == m.registers[wp.register]
         IN  IF condition(wp.condition, value)
             THEN Result([d EXCEPT !.violations =
                              Append(d.violations, << d.step_count, i, value >>)],
                         Some(i))
             ELSE check_from(d, m, i + 1)

\* The loop of _check_watchpoints run from the last watchpoint to the first.
RECURSIVE check_down_from(_, _, _)
check_down_from(d, m, i) ==
    IF i < 1 THEN Result(d, None)
    ELSE LET wp    == d.watchpoints[i]
             value == m.registers[wp.register]
         IN  IF condition(wp.condition, value)
             THEN Result([d EXCEPT !.violations =
                              Append(d.violations, << d.step_count, i, value >>)],
                         Some(i))
             ELSE check_down_from(d, m, i - 1)

\* _check_watchpoints that walks the watchpoints in reverse insertion order.
check_watchpoints_reversed(d, m) == check_down_from(d, m, Len(d.watchpoints))

check_watchpoints(d, m) == check_from(d, m, 1)

\* _record_history that records every instruction, the irreversible ones as
\* IRREVERSIBLE_OP.
record_history_all(d, m, instr) ==
    IF instr.op = "BEQ"
    THEN [d EXCEPT !.history = push(d.history, m.pc, instr.op, "BRANCH_DECISION",
                                    Some([from_pc |-> m.pc]))]
    ELSE IF reversible(instr)
    THEN [d EXCEPT !.history = push(d.history, m.pc, instr.op, "REVERSIBLE_OP", None)]
    ELSE [d EXCEPT !.history = push(d.history, m.pc, instr.op, "IRREVERSIBLE_OP", None)]

record_history(d, m, instr) ==
    IF instr.op = "BEQ"
    THEN [d EXCEPT !.history = push(d.history, m.pc, instr.op, "BRANCH_DECISION",
                                    Some([from_pc |-> m.pc]))]
    ELSE IF reversible(instr)
    THEN [d EXCEPT !.history = push(d.history, m.pc, instr.op, "REVERSIBLE_OP", None)]
    ELSE d

\* What a call on the debugger did: the debugger and the machine after it,
\* the value returned, the exception raised and the machine steps executed.
Outcome(d, m, ret, raised, steps) ==
    [dbg |-> d, m |-> m, ret |-> ret, raised |-> raised, steps |-> steps]

\* The loop of run_until_violation that still steps when step_count has
\* reached max_steps.
RECURSIVE run_until_violation_steps_at_cap(_, _, _, _)
run_until_violation_steps_at_cap(d, m, max_steps, steps) ==
    IF ~(~m.halted /\ d.step_count <= max_steps)
    THEN Outcome(d, m, None, "", steps)
    ELSE
      LET d1 == IF 0 <= m.pc /\ m.pc < Len(m.program)
                THEN record_history(d, m, m.program[m.pc + 1])
                ELSE d
          r  == step(m)
          d2 == [d1 EXCEPT
                   !.step_count = d1.step_count + 1,
                   !.history    = record_snapshot(d1.history, d1.step_count + 1)]
          violation == check_watchpoints(d2, r.m)
      IN  IF r.raised # "" THEN Outcome(d1, r.m, None, r.raised, steps)
          ELSE IF ~IsNone(violation.ret)
          THEN Outcome(violation.obj, r.m, violation.ret, "", steps + 1)
          ELSE run_until_violation_steps_at_cap(violation.obj, r.m, max_steps, steps + 1)

RECURSIVE run_until_violation_loop(_, _, _, _)
run_until_violation_loop(d, m, max_steps, steps) ==
    IF ~(~m.halted /\ d.step_count < max_steps)
    THEN Outcome(d, m, None, "", steps)
    ELSE
      LET d1 == IF 0 <= m.pc /\ m.pc < Len(m.program)
                THEN record_history(d, m, m.program[m.pc + 1])
                ELSE d
          r  == step(m)
          d2 == [d1 EXCEPT
                   !.step_count = d1.step_count + 1,
                   !.history    = record_snapshot(d1.history, d1.step_count + 1)]
          violation == check_watchpoints(d2, r.m)
      IN  IF r.raised # "" THEN Outcome(d1, r.m, None, r.raised, steps)
          ELSE IF ~IsNone(violation.ret)
          THEN Outcome(violation.obj, r.m, violation.ret, "", steps + 1)
          ELSE run_until_violation_loop(violation.obj, r.m, max_steps, steps + 1)

\* run_until_violation that evaluates the watchpoints before the first step.
run_until_violation_checks_first(d, m, max_steps) ==
    LET violation == check_watchpoints(d, m)
    IN  IF ~IsNone(violation.ret)
        THEN Outcome(violation.obj, m, violation.ret, "", 0)
        ELSE run_until_violation_loop(d, m, max_steps, 0)

run_until_violation(d, m, max_steps) == run_until_violation_loop(d, m, max_steps, 0)

CorruptionReport(pc, instruction, register, value_before, value_after, steps_back) ==
    [pc |-> pc, instruction |-> instruction, register |-> register,
     value_before |-> value_before, value_after |-> value_after,
     steps_back |-> steps_back]

\* The loop of find_corruption_source that reports the first entry it undoes,
\* whether or not the register changed.
RECURSIVE find_corruption_source_reports_first_undo(_, _, _, _, _)
find_corruption_source_reports_first_undo(d, m, register, steps_back, current_value) ==
    IF m.exec_log = << >> THEN Outcome(d, m, None, "", steps_back)
    ELSE
      LET entry     == Last(m.exec_log)
          m1        == reverse_step(m)
          new_value == m1.registers[register]
      IN  Outcome(d, m1,
                  Some(CorruptionReport(entry[1], entry[2], register, new_value,
                                        current_value, steps_back + 1)),
                  "", steps_back + 1)

\* The loop of find_corruption_source that reports the number of steps taken
\* before the one that changed the register.
RECURSIVE find_corruption_source_counts_before(_, _, _, _, _)
find_corruption_source_counts_before(d, m, register, steps_back, current_value) ==
    IF m.exec_log = << >> THEN Outcome(d, m, None, "", steps_back)
    ELSE
      LET entry     == Last(m.exec_log)
          m1        == reverse_step(m)
          new_value == m1.registers[register]
      IN  IF new_value # current_value
          THEN Outcome(d, m1,
                       Some(CorruptionReport(entry[1], entry[2], register, new_value,
                                             current_value, steps_back)),
                       "", steps_back + 1)
          ELSE find_corruption_source_counts_before(d, m1, register, steps_back + 1,
                                                    new_value)

\* The loop of find_corruption_source that gives up with one entry left.
RECURSIVE find_corruption_source_leaves_one(_, _, _, _, _)
find_corruption_source_leaves_one(d, m, register, steps_back, current_value) ==
    IF Len(m.exec_log) <= 1 THEN Outcome(d, m, None, "", steps_back)
    ELSE
      LET entry     == Last(m.exec_log)
          m1        == reverse_step(m)
          new_value == m1.registers[register]
      IN  IF new_value # current_value
          THEN Outcome(d, m1,
                       Some(CorruptionReport(entry[1], entry[2], register, new_value,
                                             current_value, steps_back + 1)),
                       "", steps_back + 1)
          ELSE find_corruption_source_leaves_one(d, m1, register, steps_back + 1,
                                                 new_value)

\* The loop of find_corruption_source; the steps of the outcome are
\* steps_back.
RECURSIVE find_corruption_source_loop(_, _, _, _, _)
find_corruption_source_loop(d, m, register, steps_back, current_value) ==
    IF m.exec_log = << >> THEN Outcome(d, m, None, "", steps_back)
    ELSE
      LET entry     == Last(m.exec_log)
          m1        == reverse_step(m)
          new_value == m1.registers[register]
      IN  IF new_value # current_value
          THEN Outcome(d, m1,
                       Some(CorruptionReport(entry[1], entry[2], register, new_value,
                                             current_value, steps_back + 1)),
                       "", steps_back + 1)
          ELSE find_corruption_source_loop(d, m1, register, steps_back + 1, new_value)

\* bad_value is not read.
find_corruption_source(d, m, register, bad_value) ==
    find_corruption_source_loop(d, m, register, 0, m.registers[register])

\* ------------------------------------------------------------------------
\* parser.py
\* ------------------------------------------------------------------------

\* A source text is the sequence of its lines, each taken after
\* raw.split(";", 1)[0].strip(): an empty line (blank or comment only), a
\* line that ends with ":" (name is what precedes the colon, stripped), or
\* the tokens of line.replace(",", " ").split().  A token is its text s and
\* what the text is: a register (r<n> or x<n>), a decimal number n, or a
\* word that is neither and does not start with r or x.
BlankLine == [kind |-> "blank", name |-> "", parts |-> << >>]
LabelLine(name) == [kind |-> "label", name |-> name, parts |-> << >>]
CodeLine(parts) == [kind |-> "code", name |-> "", parts |-> parts]

RegTok(s, n) == [s |-> s, t |-> "reg", n |-> n]
NumTok(s, n) == [s |-> s, t |-> "num", n |-> n]
WordTok(s) == [s |-> s, t |-> "word", n |-> 0]

\* AssemblyParser()
AssemblyParser == [labels |-> EmptyDict]

\* What parse did: the parser after it, the list returned (None when it
\* raised) and the exception raised.
Parsed(p, ret, raised) == [obj |-> p, ret |-> ret, raised |-> raised]

\* _parse_reg(token) succeeds: int() of the text after an r or x.
is_reg(token) == token.t \in {"reg", "num"}

\* int(token) succeeds.
is_int(token) == token.t = "num"

\* tail.isdigit()
isdigit(token) == token.t = "num" /\ token.n >= 0

\* The instruction of a line of tokens, None when the line raises ValueError.
\* The text of the first token is taken after upper().
parse_instruction(parts) ==
    LET op   == parts[1].s
        args == Tail(parts)
        n    == Len(args)
    IN  IF parts[1].t # "word" \/ op \notin OpCode THEN None
        ELSE IF op = "BEQ"
        THEN IF n # 3 \/ ~is_reg(args[1]) \/ ~is_reg(args[2]) THEN None
             ELSE Some(Instruction(op, None, Some(args[1].n), Some(args[2].n), None,
                                   Some(args[3].s)))
        ELSE IF op = "STORE"
        THEN IF n < 2 \/ ~is_reg(args[1]) \/ ~is_reg(args[2]) THEN None
             ELSE IF n > 2 /\ ~is_int(args[3]) THEN None
             ELSE Some(Instruction(op, None, Some(args[1].n), Some(args[2].n),
                                   IF n > 2 THEN Some(args[3].n) ELSE None, None))
        ELSE IF op = "LOAD"
        THEN IF n < 2 \/ ~is_reg(args[1]) \/ ~is_reg(args[2]) THEN None
             ELSE IF n > 2 /\ ~is_int(args[3]) THEN None
             ELSE Some(Instruction(op, Some(args[1].n), Some(args[2].n), None,
                                   IF n > 2 THEN Some(args[3].n) ELSE None, None))
        ELSE IF op = "HALT" THEN Some(Instruction(op, None, None, None, None, None))
        ELSE IF n > 0 /\ ~is_reg(args[1]) THEN None
        ELSE IF n > 1 /\ ~is_reg(args[2]) THEN None
        ELSE Some(Instruction(op,
                 IF n > 0 THEN Some(args[1].n) ELSE None,
                 IF n > 1 THEN Some(args[2].n) ELSE None,
                 IF n > 2 /\ args[3].t = "reg" THEN Some(args[3].n) ELSE None,
                 IF n > 2 /\ args[3].t # "reg" /\ isdigit(args[3])
                     THEN Some(args[3].n) ELSE None,
                 IF n > 2 /\ args[3].t # "reg" /\ ~isdigit(args[3])
                     THEN Some(args[3].s) ELSE None))

\* The first loop of parse from line i on: the labels, the cleaned lines and
\* the exception that left the loop.
Scanned(labels, cleaned, raised) ==
    [labels |-> labels, cleaned |-> cleaned, raised |-> raised]

\* current_pc is len(cleaned_lines) throughout.
RECURSIVE scan_labels(_, _, _, _)
scan_labels(labels, lines, i, cleaned) ==
    IF i > Len(lines) THEN Scanned(labels, cleaned, "")
    ELSE LET line == lines[i]
         IN  IF line.kind = "blank" THEN scan_labels(labels, lines, i + 1, cleaned)
             ELSE IF line.kind = "label"
             THEN IF line.name = "" THEN Scanned(labels, cleaned, "ValueError")
                  ELSE IF line.name \in DOMAIN labels
                  THEN Scanned(labels, cleaned, "ValueError")
                  ELSE scan_labels(DictSet(labels, line.name, Len(cleaned)),
                                   lines, i + 1, cleaned)
             ELSE scan_labels(labels, lines, i + 1, Append(cleaned, line.parts))

\* The second loop of parse from cleaned line i on: the instructions, None
\* when a line raised ValueError.
RECURSIVE parse_lines(_, _, _)
parse_lines(cleaned, i, instructions) ==
    IF i > Len(cleaned) THEN Some(instructions)
    ELSE IF cleaned[i] = << >> THEN parse_lines(cleaned, i + 1, instructions)
    ELSE LET instr == parse_instruction(cleaned[i])
         IN  IF IsNone(instr) THEN None
             ELSE parse_lines(cleaned, i + 1, Append(instructions, Get(instr)))

parse(p, lines) ==
    LET s  == scan_labels(p.labels, lines, 1, << >>)
        p1 == [p EXCEPT !.labels = s.labels]
    IN  IF s.raised # "" THEN Parsed(p1, None, s.raised)
        ELSE LET instructions == parse_lines(s.cleaned, 1, << >>)
             IN  IF IsNone(instructions) THEN Parsed(p1, None, "ValueError")
                 ELSE Parsed(p1, instructions, "")

\* ------------------------------------------------------------------------
\* Programs and register files the machine is driven with.
\* ------------------------------------------------------------------------

R(op, rd, rs1) == Instruction(op, Some(rd), Some(rs1), None, None, None)
RL(op, rd, rs1, label) == Instruction(op, Some(rd), Some(rs1), None, None, Some(label))
BEQ(rs1, rs2, label) == Instruction("BEQ", None, Some(rs1), Some(rs2), None, Some(label))
AluI(op, rd, rs1, imm) == Instruction(op, Some(rd), Some(rs1), None, Some(imm), None)
AluR(op, rd, rs1, rs2) == Instruction(op, Some(rd), Some(rs1), Some(rs2), None, None)
STORE(rs1, rs2, imm) == Instruction("STORE", None, Some(rs1), Some(rs2), imm, None)
LOAD(rd, rs1, imm) == Instruction("LOAD", Some(rd), Some(rs1), None, imm, None)
HALT == Instruction("HALT", None, None, None, None, None)

\* examples/prog_increment.py
make_program ==
    << RL("RADD", 1, 2, "inc_1"),
       RL("RADD", 1, 2, "inc_2"),
       RL("RADD", 1, 2, "inc_3"),
       Instruction("HALT", None, None, None, None, Some("halt")) >>

\* Reversible instructions only, two of them with rd = rs1.
ProgSameOperand ==
    << R("RADD", 1, 2), R("RADD", 2, 2), R("RXOR", 1, 1), R("RSWAP", 1, 2), HALT >>

\* Branches: a conditional one, and an unconditional one (rs1 = rs2) back to 0.
ProgBranch ==
    << BEQ(1, 2, "skip"), R("RSWAP", 0, 1), R("RXOR", 2, 1), AluI("ADD", 1, 1, 1),
       BEQ(0, 0, "back"), HALT >>

\* Exactly one BEQ and one RADD followed by HALT; the branch is taken to the
\* RADD.
ProgBranchRadd ==
    << BEQ(0, 0, "next"), R("RADD", 1, 2), HALT >>

LabelsBranchRadd == [l \in {"next"} |-> 1]

\* One reversible instruction and HALT.
ProgRaddHalt ==
    << R("RADD", 1, 2), HALT >>

\* Reversible and irreversible instructions mixed, immediates of both signs,
\* a STORE and a LOAD of the same address, and no HALT.
ProgMixed ==
    << R("RADD", 1, 2), AluI("ADD", 2, 0, -1), AluR("SUB", 0, 1, 2),
       STORE(0, 1, Some(4)), LOAD(3, 0, Some(4)), R("RXOR", 1, 3) >>

\* Arithmetic that wraps: a borrow, a carry, an immediate beyond the word.
ProgArith ==
    << AluI("SUB", 1, 1, 7), R("RADD", 2, 1), AluR("ADD", 3, 1, 2),
       AluI("ADD", 0, 3, -(Mod + 3)), LOAD(2, 0, None), HALT >>

\* examples/run_loop.py: the instructions and the labels AssemblyParser
\* gives for SOURCE.
\* debugger.py: the program of make_buggy_program, and the value it expects.
make_buggy_program ==
    << AluI("ADD", 1, 0, 10),
       AluI("ADD", 2, 0, 5),
       AluI("ADD", 3, 0, 3),
       R("RADD", 1, 2),
       R("RXOR", 1, 3),
       R("RADD", 1, 3),
       HALT >>

make_buggy_program_expected == 18

SOURCE ==
    << AluI("ADD", 1, 0, 10), AluI("ADD", 2, 0, 0), AluI("ADD", 3, 0, 1),
       BEQ(1, 0, "done"),
       R("RADD", 2, 1), R("RXOR", 2, 1), R("RXOR", 2, 1),
       AluR("SUB", 1, 1, 3),
       BEQ(0, 0, "loop_start"),
       HALT >>

SOURCE_labels == [l \in {"loop_start", "done"} |-> IF l = "loop_start" THEN 3 ELSE 9]

LabelsBranch == [l \in {"skip", "back"} |-> IF l = "skip" THEN 2 ELSE 0]
LabelsSkipOnly == [l \in {"skip"} |-> 2]

\* The (program, labels) arguments of load_program; labels None is the
\* call load_program(program).
LoadArgs ==
    { << make_program, None >>,
      << ProgSameOperand, None >>,
      << ProgBranch, Some(LabelsBranch) >>,
      << ProgBranch, Some(LabelsSkipOnly) >>,
      << ProgBranch, None >>,
      << ProgMixed, Some(EmptyDict) >>,
      << ProgArith, None >> }

\* The programs a debugger is attached to.
DbgLoadArgs ==
    LoadArgs \cup { << make_buggy_program, None >>,
                    << ProgBranchRadd, Some(LabelsBranchRadd) >> }

RegisterFile(r0, r1, r2) ==
    [r \in Regs |-> IF r = 0 THEN r0 ELSE IF r = 1 THEN r1 ELSE IF r = 2 THEN r2 ELSE 0]

\* Register files a caller presets (tests/test_basic.py presets r1 = 5, r2 = 1).
RegisterFiles ==
    { RegisterFile(0, 5, 1),
      RegisterFile(Mask, Mask, 1) }

\* ------------------------------------------------------------------------
\* State
\* ------------------------------------------------------------------------

VARIABLES
    machine,     \* the Machine object
    calls,       \* step(), reverse_step() and run() calls made on the machine so far
    loads,       \* load_program() calls made on the machine so far
    fwd_count,   \* step() calls since the load that executed an instruction and returned
    rev_count,   \* reverse_step() calls since the load
    n_logged,    \* step() calls since the load that fetched RXOR, RADD, RSWAP or BEQ
    n_popped,    \* reverse_step() calls since the load that found the log non-empty
    shadow,      \* for each entry of exec_log: the registers and PC before the step
                 \* that appended it, and the registers after it
    clean_from,  \* entries of exec_log above this index were appended by an unbroken
                 \* run of successful reversible steps, followed by reverse steps only
    phase,       \* "fwd" after a step, "rev" after a reverse_step
    trace,       \* the step ("s") and reverse_step ("r") calls since the load, in order
    origin,      \* the register file the loaded program started from
    rev_steps,   \* step() calls of the machine's lifetime that executed RXOR, RADD,
                 \* RSWAP or BEQ and returned
    irr_steps,   \* step() calls of the machine's lifetime that executed ADD, SUB,
                 \* LOAD, STORE or HALT and returned
    last         \* the last call: its name, the machine before it, what it raised,
                 \* the instruction it fetched or undid, its arguments and
                 \* the value it returned

mvars == << machine, calls, loads, fwd_count, rev_count, n_logged, n_popped,
            shadow, clean_from, phase, trace, origin, rev_steps, irr_steps, last >>

\* The reversible memory of demo_reversible_memory and the caller's register.
VARIABLES
    rmem,        \* the ReversibleMemory object
    reg,         \* the caller's register: exchange swaps it with a memory word
    mem_calls,   \* calls made on rmem so far
    rlast,       \* the last call on rmem: name, address, argument, result, rmem before
    rprev        \* the call before the last

rvars == << rmem, reg, mem_calls, rlast, rprev >>

\* A history buffer driven on its own.
VARIABLES
    hist,        \* the HistoryBuffer object
    hist_calls,  \* calls made on hist so far
    hlast,       \* the last call on hist: name, result, hist before
    pushes,      \* push() calls made on hist so far
    peak_depth   \* the largest len(hist.entries) after any call so far

hvars == << hist, hist_calls, hlast, pushes, peak_depth >>

\* The debugger of the machine above.
VARIABLES
    dbg,         \* the TimeTraveDebugger object (its machine is the variable machine)
    dbg_calls,   \* run_until_violation calls made so far
    dlast        \* the last call on dbg: name, argument, outcome, dbg and machine before

dvars == << dbg, dbg_calls, dlast >>

\* An assembly parser.
VARIABLES
    parser,      \* the AssemblyParser object
    parse_calls, \* parse calls made so far
    plast        \* the last call on parser: name, text, outcome, parser before

pvars == << parser, parse_calls, plast >>

\* A memory controller.
VARIABLES
    ctrl,        \* the MemoryController object
    hot_calls,   \* hot_load and hot_store calls made on ctrl so far
    cold_calls,  \* cold_exchange calls made on ctrl so far
    clast        \* the last call on ctrl: name, arguments, result, ctrl before

cvars == << ctrl, hot_calls, cold_calls, clast >>

vars == << mvars, rvars, hvars, dvars, pvars, cvars >>

Call(name, pre, raised, instr, undone, clean) ==
    [call |-> name, pre |-> pre, raised |-> raised, instr |-> instr,
     undone |-> undone, clean |-> clean, args |-> << >>, ret |-> None]

\* A call with arguments and a returned value.
CallWith(name, pre, raised, args, ret) ==
    [call |-> name, pre |-> pre, raised |-> raised, instr |-> None,
     undone |-> None, clean |-> FALSE, args |-> args, ret |-> ret]

InitMachine ==
    /\ machine = Machine
    /\ calls = 0
    /\ loads = 0
    /\ fwd_count = 0
    /\ rev_count = 0
    /\ n_logged = 0
    /\ n_popped = 0
    /\ shadow = << >>
    /\ clean_from = 0
    /\ phase = "fwd"
    /\ trace = << >>
    /\ origin = Machine.registers
    /\ rev_steps = 0
    /\ irr_steps = 0
    /\ last = Call("Machine", Machine, "", None, None, FALSE)

MemCall(name, addr, arg, ret, pre) ==
    [call |-> name, addr |-> addr, arg |-> arg, ret |-> ret, pre |-> pre]

InitMemory ==
    /\ rmem = ReversibleMemory
    /\ reg = 0
    /\ mem_calls = 0
    /\ rlast = MemCall("ReversibleMemory", 0, 0, 0, ReversibleMemory)
    /\ rprev = MemCall("ReversibleMemory", 0, 0, 0, ReversibleMemory)

HistCall(name, ret, pre) == [call |-> name, ret |-> ret, pre |-> pre]

InitHistory ==
    /\ hist = HistoryBuffer
    /\ hist_calls = 0
    /\ hlast = HistCall("HistoryBuffer", None, HistoryBuffer)
    /\ pushes = 0
    /\ peak_depth = 0

DbgCall(name, arg, out, pre, pre_machine) ==
    [call |-> name, arg |-> arg, ret |-> out.ret, raised |-> out.raised,
     steps |-> out.steps, pre |-> pre, pre_machine |-> pre_machine]

InitDebugger ==
    /\ dbg = TimeTraveDebugger
    /\ dbg_calls = 0
    /\ dlast = DbgCall("TimeTraveDebugger", 0,
                       Outcome(TimeTraveDebugger, Machine, None, "", 0),
                       TimeTraveDebugger, Machine)

ParseCall(name, text, out, pre) ==
    [call |-> name, text |-> text, ret |-> out.ret, raised |-> out.raised, pre |-> pre]

InitParser ==
    /\ parser = AssemblyParser
    /\ parse_calls = 0
    /\ plast = ParseCall("AssemblyParser", << >>, Parsed(AssemblyParser, None, ""),
                         AssemblyParser)

CtrlCall(name, args, ret, pre) == [call |-> name, args |-> args, ret |-> ret, pre |-> pre]

InitController ==
    /\ ctrl = MemoryController
    /\ hot_calls = 0
    /\ cold_calls = 0
    /\ clast = CtrlCall("MemoryController", << >>, << >>, MemoryController)

Init ==
    /\ InitMachine /\ InitMemory /\ InitHistory /\ InitDebugger
    /\ InitParser /\ InitController

\* ------------------------------------------------------------------------
\* Actions on the machine
\* ------------------------------------------------------------------------

\* m.load_program(program, labels)
LoadProgram(program, labels) ==
    /\ loads < MaxLoads
    /\ machine' = load_program(machine, program, labels)
    /\ loads' = loads + 1
    /\ fwd_count' = 0
    /\ rev_count' = 0
    /\ n_logged' = 0
    /\ n_popped' = 0
    /\ shadow' = << >>
    /\ clean_from' = 0
    /\ phase' = "fwd"
    /\ trace' = << >>
    /\ origin' = machine.registers
    /\ last' = CallWith("load_program", machine, "", << program, labels >>, None)
    /\ UNCHANGED << calls, rev_steps, irr_steps, rvars, hvars, dvars, pvars, cvars >>

\* The caller presets the register file of a machine it has loaded and not
\* stepped yet (otherwise the registers are the zeros of Machine()).
SetRegisters(registers) ==
    /\ loads > 0
    /\ calls = 0
    /\ machine.registers = Machine.registers
    /\ machine' = [machine EXCEPT !.registers = registers]
    /\ origin' = registers
    /\ last' = Call("registers", machine, "", None, None, FALSE)
    /\ UNCHANGED << calls, loads, fwd_count, rev_count, n_logged, n_popped,
                    shadow, clean_from, phase, trace, rev_steps, irr_steps,
                    rvars, hvars, dvars, pvars, cvars >>

\* The instruction step() fetches, None when it fetches none.
Fetched(m) ==
    IF ~m.halted /\ 0 <= m.pc /\ m.pc < Len(m.program)
    THEN Some(m.program[m.pc + 1]) ELSE None

\* m.step()
Step ==
    /\ loads > 0
    /\ calls < MaxCalls
    /\ LET res     == step(machine)
           instr   == Fetched(machine)
           logged  == ~IsNone(instr) /\ reversible(Get(instr))
           ok      == res.raised = "" /\ ~IsNone(instr)
           before  == [registers |-> machine.registers, pc |-> machine.pc]
       IN  /\ machine' = res.m
           /\ calls' = calls + 1
           /\ fwd_count' = IF ok THEN fwd_count + 1 ELSE fwd_count
           /\ rev_steps' = IF ok /\ logged THEN rev_steps + 1 ELSE rev_steps
           /\ irr_steps' = IF ok /\ ~logged THEN irr_steps + 1 ELSE irr_steps
           /\ n_logged' = IF logged THEN n_logged + 1 ELSE n_logged
           /\ shadow' = IF logged
                        THEN Append(shadow, [before |-> before,
                                             after  |-> res.m.registers])
                        ELSE shadow
           /\ clean_from' = IF ok /\ logged
                            THEN (IF phase = "rev" THEN Len(machine.exec_log)
                                                   ELSE clean_from)
                            ELSE Len(res.m.exec_log)
           /\ last' = Call("step", machine, res.raised, instr, None, FALSE)
    /\ phase' = "fwd"
    /\ trace' = Append(trace, "s")
    /\ UNCHANGED << loads, rev_count, n_popped, origin, rvars, hvars, dvars, pvars, cvars >>

\* m.reverse_step()
ReverseStep ==
    /\ loads > 0
    /\ calls < MaxCalls
    /\ LET m2     == reverse_step(machine)
           n      == Len(machine.exec_log)
           popped == n > 0
       IN  /\ machine' = m2
           /\ calls' = calls + 1
           /\ rev_count' = rev_count + 1
           /\ n_popped' = IF popped THEN n_popped + 1 ELSE n_popped
           /\ shadow' = IF popped THEN Front(shadow) ELSE shadow
           /\ clean_from' = IF clean_from > Len(m2.exec_log)
                            THEN Len(m2.exec_log) ELSE clean_from
           /\ last' = Call("reverse_step", machine, "",
                           IF popped THEN Some(Last(machine.exec_log)[2]) ELSE None,
                           IF popped THEN Some(Last(shadow)) ELSE None,
                           popped /\ n > clean_from)
    /\ phase' = "rev"
    /\ trace' = Append(trace, "r")
    /\ UNCHANGED << loads, fwd_count, n_logged, origin, rev_steps, irr_steps,
                    rvars, hvars, dvars, pvars, cvars >>

Next ==
    \/ \E a \in LoadArgs : LoadProgram(a[1], a[2])
    \/ \E r \in RegisterFiles : SetRegisters(r)
    \/ Step
    \/ ReverseStep

Spec == Init /\ [][Next]_vars

\* ------------------------------------------------------------------------
\* Actions on a machine that is driven with run()
\* ------------------------------------------------------------------------

\* The (program, labels) arguments of load_program before a run.
RunLoadArgs ==
    { << SOURCE, Some(SOURCE_labels) >>,
      << make_program, None >>,
      << ProgMixed, Some(EmptyDict) >>,
      << ProgBranch, Some(LabelsBranch) >>,
      << ProgBranch, Some(LabelsSkipOnly) >> }

\* The max_steps arguments of run; None is the call run().
RunCaps == { None, Some(0), Some(1), Some(3), Some(S2MaxSteps) }

\* The machine halts or fails within MaxRunLength steps.
Stops(m) ==
    LET s == run_loop(RunLoop(m, "", 0, FALSE), Some(MaxRunLength), MaxRunLength)
    IN  s.raised # "" \/ s.m.halted

Repeat(x, n) == [i \in 1 .. n |-> x]

\* m.run(max_steps).  shadow and clean_from keep describing the log entries
\* of direct step() calls: a machine driven with run() is not reverse-stepped.
Run(max_steps) ==
    /\ loads > 0
    /\ calls < MaxRunCalls
    /\ (IsNone(max_steps) \/ Get(max_steps) > MaxRunLength) => Stops(machine)
    /\ LET res == run(machine, max_steps)
           \* entries appended by the steps that returned: a BEQ that raised
           \* ValueError has appended one too
           rev == (Len(res.m.exec_log) - Len(machine.exec_log))
                    - (IF res.raised = "ValueError" THEN 1 ELSE 0)
       IN  /\ machine' = res.m
           /\ fwd_count' = fwd_count + res.steps
           /\ rev_steps' = rev_steps + rev
           /\ irr_steps' = irr_steps + (res.steps - rev)
           /\ n_logged' = n_logged + (Len(res.m.exec_log) - Len(machine.exec_log))
           /\ trace' = trace \o Repeat("s", res.steps + (IF res.raised = "" THEN 0 ELSE 1))
           /\ last' = CallWith("run", machine, res.raised, << max_steps >>,
                               IF res.raised = "" THEN Some(res.steps) ELSE None)
    /\ calls' = calls + 1
    /\ phase' = "fwd"
    /\ UNCHANGED << loads, rev_count, n_popped, shadow, clean_from, origin,
                    rvars, hvars, dvars, pvars, cvars >>

NextRun ==
    \/ \E a \in RunLoadArgs : LoadProgram(a[1], a[2])
    \/ \E r \in RegisterFiles : SetRegisters(r)
    \/ calls < MaxRunCalls /\ Step
    \/ \E k \in RunCaps : Run(k)

SpecRun == Init /\ [][NextRun]_vars

\* ------------------------------------------------------------------------
\* Actions on a machine that is driven to HALT and beyond
\* ------------------------------------------------------------------------

\* Programs that reach HALT within a few steps.
HaltLoadArgs ==
    { << ProgRaddHalt, None >>,
      << ProgBranchRadd, Some(LabelsBranchRadd) >>,
      << make_program, None >> }

\* reverse_step is followed on logs whose entries all come from direct
\* step() calls, the ones shadow describes.
NextHalt ==
    \/ \E a \in HaltLoadArgs : LoadProgram(a[1], a[2])
    \/ \E r \in RegisterFiles : SetRegisters(r)
    \/ Step
    \/ Len(shadow) = Len(machine.exec_log) /\ ReverseStep
    \/ \E k \in {None, Some(0), Some(1)} : Run(k)

SpecHalt == Init /\ [][NextHalt]_vars

\* ------------------------------------------------------------------------
\* Actions on a machine constructed with num_regs
\* ------------------------------------------------------------------------

\* The num_regs arguments of Machine(): the default, fewer and more.
NumRegsArgs == {NumRegs, NumRegs - 2, 2 * NumRegs}

\* m = Machine(num_regs=n)
Construct(num_regs) ==
    /\ loads = 0
    /\ calls = 0
    /\ last.call = "Machine"
    /\ last.args = << >>
    /\ machine' = MachineWith(num_regs)
    /\ last' = CallWith("Machine", machine, "", << num_regs >>, None)
    /\ UNCHANGED << calls, loads, fwd_count, rev_count, n_logged, n_popped, shadow,
                    clean_from, phase, trace, origin, rev_steps, irr_steps,
                    rvars, hvars, dvars, pvars, cvars >>

\* reverse_step is followed on logs whose entries all come from direct
\* step() calls, the ones shadow describes.
NextNumRegs ==
    \/ \E n \in NumRegsArgs : Construct(n)
    \/ \E a \in RunLoadArgs : LoadProgram(a[1], a[2])
    \/ calls < MaxRunCalls /\ Step
    \/ calls < MaxRunCalls /\ Len(shadow) = Len(machine.exec_log) /\ ReverseStep
    \/ \E k \in RunCaps : Run(k)

SpecNumRegs == Init /\ [][NextNumRegs]_vars

\* ------------------------------------------------------------------------
\* Actions on the Memory of a machine, called directly
\* ------------------------------------------------------------------------

\* Addresses and values of the direct calls: values inside the word, beyond
\* it and negative.
MemoryAddrs == {0, 4096}
MemoryValues == {0, 100, Mod + 5, -1}

\* m.memory.store_word(addr, value)
MemoryStoreWord(addr, value) ==
    /\ calls < MaxMemCalls
    /\ machine' = [machine EXCEPT !.memory = Memory_store_word(machine.memory, addr, value)]
    /\ calls' = calls + 1
    /\ last' = CallWith("Memory.store_word", machine, "", << addr, value >>, None)
    /\ UNCHANGED << loads, fwd_count, rev_count, n_logged, n_popped, shadow,
                    clean_from, phase, trace, origin, rev_steps, irr_steps,
                    rvars, hvars, dvars, pvars, cvars >>

\* m.memory.load_word(addr)
MemoryLoadWord(addr) ==
    /\ calls < MaxMemCalls
    /\ calls' = calls + 1
    /\ last' = CallWith("Memory.load_word", machine, "", << addr >>,
                        Some(Memory_load_word(machine.memory, addr)))
    /\ UNCHANGED << machine, loads, fwd_count, rev_count, n_logged, n_popped, shadow,
                    clean_from, phase, trace, origin, rev_steps, irr_steps,
                    rvars, hvars, dvars, pvars, cvars >>

NextPlainMemory ==
    \/ \E a \in MemoryAddrs, v \in MemoryValues : MemoryStoreWord(a, v)
    \/ \E a \in MemoryAddrs : MemoryLoadWord(a)

SpecPlainMemory == Init /\ [][NextPlainMemory]_vars

\* ------------------------------------------------------------------------
\* Actions on the reversible memory
\* ------------------------------------------------------------------------

\* Addresses read and written: 0x1000 and 0x2000.
Addrs == {4096, 8192}

\* Regions configured: [0x1000, 0x2000) as in demo_reversible_memory, and
\* one that overlaps it.
Regions == { << 4096, 8192, "REVERSIBLE" >>, << 0, 4100, "MIXED" >> }

\* Values stored with store_word: inside the word, beyond it and negative.
StoreValues == {100, Mod + 5, -1}

\* Values of the caller's register: 32-bit values.
RegValues == {0, 42, Mask}

MemStep(name, addr, arg, res) ==
    /\ mem_calls < MaxMemCalls
    /\ mem_calls' = mem_calls + 1
    /\ rmem' = res.obj
    /\ rlast' = MemCall(name, addr, arg, res.ret, rmem)
    /\ rprev' = rlast

\* mem.configure_region(start, end, region_type)
ConfigureRegion(start, end, region_type) ==
    /\ MemStep("configure_region", start, end,
               Result(configure_region(rmem, start, end, region_type), 0))
    /\ UNCHANGED << reg, mvars, hvars, dvars, pvars, cvars >>

\* mem.store_word(addr, value)
StoreWord(addr, value) ==
    /\ MemStep("store_word", addr, value, Result(store_word(rmem, addr, value), 0))
    /\ UNCHANGED << reg, mvars, hvars, dvars, pvars, cvars >>

\* Addresses classified: below, at and next to the bounds of the regions.
ProbeAddrs == {0, 4095, 4096, 4099, 4100, 8191, 8192}

\* mem.get_region_type(addr)
GetRegionType(addr) ==
    /\ rlast' = MemCall("get_region_type", addr, 0, get_region_type(rmem, addr), rmem)
    /\ rprev' = rlast
    /\ UNCHANGED << rmem, reg, mem_calls, mvars, hvars, dvars, pvars, cvars >>

\* mem.load_word(addr)
LoadWord(addr) ==
    /\ MemStep("load_word", addr, 0, load_word(rmem, addr))
    /\ UNCHANGED << reg, mvars, hvars, dvars, pvars, cvars >>

\* reg = value
SetReg(value) ==
    /\ mem_calls < MaxMemCalls
    /\ reg # value
    /\ rlast.call # "reg"
    /\ reg' = value
    /\ rlast' = MemCall("reg", 0, value, 0, rmem)
    /\ rprev' = rlast
    /\ UNCHANGED << rmem, mem_calls, mvars, hvars, dvars, pvars, cvars >>

\* reg = mem.exchange(addr, reg)
Exchange(addr) ==
    /\ MemStep("exchange", addr, reg, exchange(rmem, addr, reg))
    /\ reg' = exchange(rmem, addr, reg).ret
    /\ UNCHANGED << mvars, hvars, dvars, pvars, cvars >>

\* reg = mem.reverse_exchange(addr, reg)
ReverseExchange(addr) ==
    /\ MemStep("exchange", addr, reg, reverse_exchange(rmem, addr, reg))
    /\ reg' = reverse_exchange(rmem, addr, reg).ret
    /\ UNCHANGED << mvars, hvars, dvars, pvars, cvars >>

NextMemory ==
    \/ \E r \in Regions : ConfigureRegion(r[1], r[2], r[3])
    \/ \E a \in Addrs, v \in StoreValues : StoreWord(a, v)
    \/ \E a \in Addrs : LoadWord(a)
    \/ \E v \in RegValues : SetReg(v)
    \/ \E a \in Addrs : Exchange(a)
    \/ \E a \in Addrs : ReverseExchange(a)

SpecMemory == Init /\ [][NextMemory]_vars

\* Regions configured before addresses are classified: those of Regions and
\* a STANDARD one inside both.
ProbeRegions == Regions \cup { << 4099, 4100, "STANDARD" >> }

NextRegions ==
    \/ \E r \in ProbeRegions : ConfigureRegion(r[1], r[2], r[3])
    \/ \E a \in ProbeAddrs : GetRegionType(a)

SpecRegions == Init /\ [][NextRegions]_vars

\* ------------------------------------------------------------------------
\* Actions on an assembly parser
\* ------------------------------------------------------------------------

Add(rd, rs1, imm, text) ==
    CodeLine(<< WordTok("ADD"), RegTok(rd[1], rd[2]), RegTok(rs1[1], rs1[2]),
                NumTok(text, imm) >>)

Beq(rs1, rs2, label) ==
    CodeLine(<< WordTok("BEQ"), RegTok(rs1[1], rs1[2]), RegTok(rs2[1], rs2[2]),
                WordTok(label) >>)

Rev(op, rd, rs1) == CodeLine(<< WordTok(op), RegTok(rd[1], rd[2]), RegTok(rs1[1], rs1[2]) >>)

r0 == << "r0", 0 >>
r1 == << "r1", 1 >>
r2 == << "r2", 2 >>
r3 == << "r3", 3 >>

\* examples/run_loop.py: the lines of SOURCE.
SOURCE_text ==
    << BlankLine, BlankLine, BlankLine, BlankLine, BlankLine, BlankLine,
       Add(r1, r0, 10, "10"),
       Add(r2, r0, 0, "0"),
       Add(r3, r0, 1, "1"),
       BlankLine,
       LabelLine("loop_start"),
       Beq(r1, r0, "done"),
       BlankLine, BlankLine,
       Rev("RADD", r2, r1),
       Rev("RXOR", r2, r1),
       Rev("RXOR", r2, r1),
       BlankLine, BlankLine,
       CodeLine(<< WordTok("SUB"), RegTok("r1", 1), RegTok("r1", 1), RegTok("r3", 3) >>),
       BlankLine, BlankLine,
       Beq(r0, r0, "loop_start"),
       BlankLine,
       LabelLine("done"),
       CodeLine(<< WordTok("HALT") >>) >>

\* The texts parsed: SOURCE; a label on the last line; a line of commas
\* before a label; two labels before one instruction, with a store and a load;
\* a label declared twice; an empty label; an unknown opcode; a BEQ with two
\* operands; a negative third operand.
Texts ==
    { SOURCE_text,
      << Beq(r0, r0, "end"), LabelLine("end") >>,
      << Add(r1, r0, 1, "1"), CodeLine(<< >>), LabelLine("end"),
         CodeLine(<< WordTok("HALT") >>) >>,
      << LabelLine("a"), BlankLine, LabelLine("b"),
         CodeLine(<< WordTok("STORE"), RegTok("r1", 1), RegTok("x2", 2), NumTok("4", 4) >>),
         CodeLine(<< WordTok("LOAD"), RegTok("r3", 3), RegTok("r1", 1) >>),
         Beq(r0, r0, "b") >>,
      << LabelLine("a"), CodeLine(<< WordTok("HALT") >>), LabelLine("a") >>,
      << CodeLine(<< WordTok("HALT") >>), LabelLine("") >>,
      << LabelLine("start"), CodeLine(<< WordTok("NOP") >>) >>,
      << CodeLine(<< WordTok("BEQ"), RegTok("r1", 1), WordTok("end") >>) >>,
      << CodeLine(<< WordTok("ADD"), RegTok("r1", 1), RegTok("r0", 0), NumTok("-1", -1) >>) >> }

\* parser = AssemblyParser()
NewParser ==
    /\ parse_calls > 0
    /\ plast.call = "parse"
    /\ parser' = AssemblyParser
    /\ plast' = ParseCall("AssemblyParser", << >>, Parsed(AssemblyParser, None, ""),
                          parser)
    /\ UNCHANGED << parse_calls, mvars, rvars, hvars, dvars, cvars >>

\* program = parser.parse(source_text)
Parse(source_text) ==
    /\ parse_calls < MaxParseCalls
    /\ LET out == parse(parser, source_text)
       IN  /\ parser' = out.obj
           /\ plast' = ParseCall("parse", source_text, out, parser)
    /\ parse_calls' = parse_calls + 1
    /\ UNCHANGED << mvars, rvars, hvars, dvars, cvars >>

NextParser ==
    \/ NewParser
    \/ \E t \in Texts : Parse(t)

SpecParser == Init /\ [][NextParser]_vars

\* ------------------------------------------------------------------------
\* Actions on a memory controller
\* ------------------------------------------------------------------------

\* The latencies a controller is constructed with: the defaults, and a cold
\* path as fast as the hot one.
Latencies == { << 1, 2 >>, << 3, 3 >>, << 2, 5 >> }

\* ctrl = MemoryController(hot_latency=h, cold_latency=c)
NewController(hot_latency, cold_latency) ==
    /\ hot_calls + cold_calls = 0
    /\ clast.call = "MemoryController"
    /\ clast.args = << >>
    /\ ctrl' = MemoryControllerWith(hot_latency, cold_latency)
    /\ clast' = CtrlCall("MemoryController", << hot_latency, cold_latency >>, << >>, ctrl)
    /\ UNCHANGED << hot_calls, cold_calls, mvars, rvars, hvars, dvars, pvars >>

\* value, latency = ctrl.hot_load(addr)
HotLoad(addr) ==
    /\ hot_calls + cold_calls < MaxCtrlCalls
    /\ ctrl' = hot_load(ctrl, addr).obj
    /\ clast' = CtrlCall("hot_load", << addr >>, hot_load(ctrl, addr).ret, ctrl)
    /\ hot_calls' = hot_calls + 1
    /\ UNCHANGED << cold_calls, mvars, rvars, hvars, dvars, pvars >>

\* latency = ctrl.hot_store(addr, value)
HotStore(addr, value) ==
    /\ hot_calls + cold_calls < MaxCtrlCalls
    /\ ctrl' = hot_store(ctrl, addr, value).obj
    /\ clast' = CtrlCall("hot_store", << addr, value >>,
                         << hot_store(ctrl, addr, value).ret >>, ctrl)
    /\ hot_calls' = hot_calls + 1
    /\ UNCHANGED << cold_calls, mvars, rvars, hvars, dvars, pvars >>

\* old, latency = ctrl.cold_exchange(addr, reg_value)
ColdExchange(addr, reg_value) ==
    /\ hot_calls + cold_calls < MaxCtrlCalls
    /\ ctrl' = cold_exchange(ctrl, addr, reg_value).obj
    /\ clast' = CtrlCall("cold_exchange", << addr, reg_value >>,
                         cold_exchange(ctrl, addr, reg_value).ret, ctrl)
    /\ cold_calls' = cold_calls + 1
    /\ UNCHANGED << hot_calls, mvars, rvars, hvars, dvars, pvars >>

NextController ==
    \/ \E l \in Latencies : NewController(l[1], l[2])
    \/ \E a \in Addrs : HotLoad(a)
    \/ \E a \in Addrs, v \in {100, Mod + 5} : HotStore(a, v)
    \/ \E a \in Addrs, v \in {0, 42} : ColdExchange(a, v)

SpecController == Init /\ [][NextController]_vars

\* ------------------------------------------------------------------------
\* Actions on a history buffer
\* ------------------------------------------------------------------------

\* The (op_name, entry_type) pairs pushed.
Pushed ==
    { << "BEQ", "BRANCH_DECISION" >>, << "BEQ", "BRANCH_SOURCE" >>,
      << "RADD", "REVERSIBLE_OP" >>, << "ADD", "IRREVERSIBLE_OP" >> }

HistStep(name, res) ==
    /\ hist_calls < MaxHistCalls
    /\ hist_calls' = hist_calls + 1
    /\ hist' = res.obj
    /\ hlast' = HistCall(name, res.ret, hist)
    /\ pushes' = IF name = "push" THEN pushes + 1 ELSE pushes
    /\ peak_depth' = IF Len(res.obj.entries) > peak_depth
                     THEN Len(res.obj.entries) ELSE peak_depth
    /\ UNCHANGED << mvars, rvars, dvars, pvars, cvars >>

\* hist.push(pc, op_name, entry_type)
Push(pc, op_name, entry_type) ==
    HistStep("push", Result(push(hist, pc, op_name, entry_type, None), None))

\* hist.pop()
Pop == HistStep("pop", pop(hist))

\* hist.record_snapshot(step)
RecordSnapshot == HistStep("record_snapshot", Result(record_snapshot(hist, hist_calls), None))

NextHistory ==
    \/ \E pc \in {0, 3}, k \in Pushed : Push(pc, k[1], k[2])
    \/ Pop
    \/ RecordSnapshot

SpecHistory == Init /\ [][NextHistory]_vars

\* ------------------------------------------------------------------------
\* Actions on the debugger
\* ------------------------------------------------------------------------

\* dbg.watch_equals(register, expected)
WatchEquals(register, expected) ==
    /\ Len(dbg.watchpoints) < MaxWatchpoints
    /\ dbg' = watch_equals(dbg, register, expected)
    /\ dlast' = DbgCall("watch_equals", register, Outcome(dbg, machine, None, "", 0),
                        dbg, machine)
    /\ UNCHANGED << dbg_calls, mvars, rvars, hvars, pvars, cvars >>

\* dbg.watch_range(register, lo, hi)
WatchRange(register, lo, hi) ==
    /\ Len(dbg.watchpoints) < MaxWatchpoints
    /\ dbg' = watch_range(dbg, register, lo, hi)
    /\ dlast' = DbgCall("watch_range", register, Outcome(dbg, machine, None, "", 0),
                        dbg, machine)
    /\ UNCHANGED << dbg_calls, mvars, rvars, hvars, pvars, cvars >>

\* dbg.run_until_violation(max_steps)
RunUntilViolation(max_steps) ==
    /\ loads > 0
    /\ dbg_calls < MaxDbgCalls
    /\ LET out == run_until_violation(dbg, machine, max_steps)
       IN  /\ dbg' = out.dbg
           /\ machine' = out.m
           /\ dlast' = DbgCall("run_until_violation", max_steps, out, dbg, machine)
    /\ dbg_calls' = dbg_calls + 1
    /\ UNCHANGED << calls, loads, fwd_count, rev_count, n_logged, n_popped, shadow,
                    clean_from, phase, trace, origin, rev_steps, irr_steps, last,
                    rvars, hvars, pvars, cvars >>

\* dbg.find_corruption_source(register, bad_value), after a forward run.
FindCorruptionSource(register, bad_value) ==
    /\ dlast.call = "run_until_violation"
    /\ LET out == find_corruption_source(dbg, machine, register, bad_value)
       IN  /\ dbg' = out.dbg
           /\ machine' = out.m
           /\ dlast' = DbgCall("find_corruption_source", register, out, dbg, machine)
    /\ UNCHANGED << dbg_calls, calls, loads, fwd_count, rev_count, n_logged, n_popped,
                    shadow, clean_from, phase, trace, origin, rev_steps, irr_steps,
                    last, rvars, hvars, pvars, cvars >>

\* The debugger is created on a freshly loaded machine (one load_program, the
\* registers preset or not) and is the only one to drive it from then on.
DebuggerAttached == dbg # TimeTraveDebugger

NextDebugger ==
    \/ \E a \in DbgLoadArgs : loads = 0 /\ LoadProgram(a[1], a[2])
    \/ \E r \in RegisterFiles : ~DebuggerAttached /\ SetRegisters(r)
    \/ \E r \in {1, 2} : WatchEquals(r, 5)
    \/ WatchRange(1, 0, 5)
    \/ \E n \in {1, 3, MaxRunSteps} : RunUntilViolation(n)
    \/ \E r \in {1, 2} :
         \E bad_value \in {machine.registers[r], make_buggy_program_expected} :
            FindCorruptionSource(r, bad_value)

SpecDebugger == Init /\ [][NextDebugger]_vars

\* ------------------------------------------------------------------------
\* Properties of the machine
\* ------------------------------------------------------------------------

Max(a, b) == IF a >= b THEN a ELSE b

LastInstr == Get(last.instr)
Undone == Get(last.undone)
DidStep == last.call = "step" /\ ~IsNone(last.instr)
DidUndo == last.call = "reverse_step" /\ ~IsNone(last.instr)
SameOperand(instr) == instr.op \in {"RADD", "RXOR"} /\ instr.rd = instr.rs1

\* C1: after N consecutive successful steps that executed reversible
\* instructions only, N reverse steps leave the register file and the PC as
\* they were before those N steps.  (Each reverse step of such a run must
\* restore the state before the step whose entry it pops.)
RoundTripReversiblePrefix ==
    (DidUndo /\ last.clean) =>
        /\ machine.registers = Undone.before.registers
        /\ machine.pc = Undone.before.pc

\* C2 as stated: len(exec_log) is the number of forward steps executed since
\* the load minus the number of reverse steps, clamped at 0.
ExecLogLengthIsStepsMinusReverses ==
    Len(machine.exec_log) = Max(fwd_count - rev_count, 0)

\* C2, amended: len(exec_log) is the number of steps since the load that
\* fetched RXOR, RADD, RSWAP or BEQ minus the number of reverse steps that
\* found the log non-empty; it is 3 after RADD, RADD, RADD, HALT ran to
\* completion.
ExecLogLength ==
    /\ Len(machine.exec_log) = n_logged - n_popped
    /\ (machine.program = make_program /\ machine.halted /\ rev_count = 0)
          => Len(machine.exec_log) = 3

ExecLogLengthWitness ==
    /\ machine.program = make_program
    /\ machine.halted
    /\ fwd_count = 4
    /\ rev_count = 0
    /\ Len(machine.exec_log) = 3

\* C3: load_program never installs a program holding a RADD or RXOR with
\* rd = rs1, and the machine never executes one.
NoSameOperandProgram ==
    /\ \A i \in 1 .. Len(machine.program) : ~SameOperand(machine.program[i])
    /\ DidStep => ~SameOperand(LastInstr)

\* C4: a forward BEQ at PC p leaves the registers unchanged and sets PC to
\* labels[label] when r[rs1] = r[rs2], else to p + 1; the reverse step that
\* pops its entry sets PC to p, the from_pc of the payload, and leaves the
\* registers unchanged, whatever they hold.
BeqPcInvariant ==
    /\ (DidStep /\ LastInstr.op = "BEQ" /\ last.raised = "") =>
          /\ machine.registers = last.pre.registers
          /\ machine.pc =
               IF last.pre.registers[Get(LastInstr.rs1)]
                    = last.pre.registers[Get(LastInstr.rs2)]
               THEN last.pre.labels[Get(LastInstr.label)]
               ELSE last.pre.pc + 1
    /\ (DidUndo /\ LastInstr.op = "BEQ") =>
          /\ machine.pc = Undone.before.pc
          /\ machine.pc = Get(Last(last.pre.exec_log)[3]).from_pc
          /\ machine.registers = last.pre.registers

\* A BEQ is undone while the registers differ from those it was executed with.
BeqPcInvariantWitness ==
    /\ DidUndo
    /\ LastInstr.op = "BEQ"
    /\ last.pre.registers # Undone.after
    /\ machine.pc = Undone.before.pc

\* C5: every register value v satisfies 0 <= v < 2^32 (here 2^WordBits).
RegistersInRange ==
    \A r \in Regs : 0 <= machine.registers[r] /\ machine.registers[r] < Mod

\* A RADD that wrapped around is undone with a borrow.
RegistersInRangeWitness ==
    /\ DidUndo
    /\ LastInstr.op = "RADD"
    /\ last.pre.registers[Get(LastInstr.rd)] < last.pre.registers[Get(LastInstr.rs1)]
    /\ machine.registers[Get(LastInstr.rd)] > last.pre.registers[Get(LastInstr.rd)]

\* C9: whenever reverse_step undoes a RADD or RXOR entry, r[rd] and r[rs1]
\* hold the values they held right after the forward execution of that
\* instruction.
UndoOperandsUnchanged ==
    (DidUndo /\ LastInstr.op \in {"RADD", "RXOR"}) =>
        /\ last.pre.registers[Get(LastInstr.rd)] = Undone.after[Get(LastInstr.rd)]
        /\ last.pre.registers[Get(LastInstr.rs1)] = Undone.after[Get(LastInstr.rs1)]

\* C10: scenario S1.  RADD r1,r2; RADD r1,r2; RADD r1,r2; HALT with r1 = 5,
\* r2 = 1: four steps halt the machine (three do not) with r1 = 8; three
\* reverse steps then give r1 = 5, r2 = 1; after a fourth the PC is 0.
InS1 == machine.program = make_program /\ origin = RegisterFile(0, 5, 1)

ScenarioS1 ==
    InS1 =>
      /\ trace = << "s", "s", "s" >> => ~machine.halted
      /\ trace = << "s", "s", "s", "s" >> =>
            machine.halted /\ machine.registers[1] = 8
      /\ trace = << "s", "s", "s", "s", "r", "r", "r" >> =>
            machine.registers[1] = 5 /\ machine.registers[2] = 1
      /\ trace = << "s", "s", "s", "s", "r", "r", "r", "r" >> =>
            machine.pc = 0 /\ machine.registers[1] = 5

ScenarioS1Witness ==
    /\ InS1
    /\ trace = << "s", "s", "s", "s", "r", "r", "r", "r" >>
    /\ machine.pc = 0
    /\ machine.halted

\* ------------------------------------------------------------------------
\* Properties of run, load_program, step and reverse_step
\* ------------------------------------------------------------------------

DidRun == last.call = "run"
RunCap == last.args[1]
DidLoad == last.call = "load_program"
PcInRange(m) == 0 <= m.pc /\ m.pc < Len(m.program)

\* The mixed-loop program, just loaded into a machine with all-zero registers.
InS2(m) ==
    /\ m.program = SOURCE
    /\ m.labels = SOURCE_labels
    /\ m.pc = 0
    /\ ~m.halted
    /\ m.registers = [r \in Regs |-> 0]

\* C11: scenario S2.  run(max_steps=1000) of the mixed-loop program from
\* all-zero registers returns a step count below 1000 and leaves halted
\* true, r2 = 55, r1 = 0 and r3 = 1.
ScenarioS2 ==
    (DidRun /\ RunCap = Some(S2MaxSteps) /\ InS2(last.pre)) =>
        /\ last.raised = ""
        /\ ~IsNone(last.ret)
        /\ Get(last.ret) < S2MaxSteps
        /\ machine.halted
        /\ machine.registers[2] = 55
        /\ machine.registers[1] = 0
        /\ machine.registers[3] = 1

ScenarioS2Witness ==
    /\ DidRun
    /\ RunCap = Some(S2MaxSteps)
    /\ InS2(last.pre)
    /\ machine.halted
    /\ machine.registers[2] = 55
    /\ Len(machine.exec_log) > 0

\* C12: reverse_step on an empty execution log raises nothing and leaves
\* registers, PC, halted, log, memory, energy and metrics unchanged, however
\* many times it is repeated after the log is exhausted.
ReverseStepOnEmptyLog ==
    (last.call = "reverse_step" /\ last.pre.exec_log = << >>) =>
        /\ last.raised = ""
        /\ machine.registers = last.pre.registers
        /\ machine.pc = last.pre.pc
        /\ machine.halted = last.pre.halted
        /\ machine.exec_log = << >>
        /\ machine.memory = last.pre.memory
        /\ machine.energy = last.pre.energy
        /\ machine.metrics = last.pre.metrics
        /\ machine = last.pre

\* The log was rewound to empty and reverse_step was called twice more, on a
\* machine that has spent energy.
ReverseStepOnEmptyLogWitness ==
    /\ last.call = "reverse_step"
    /\ last.pre.exec_log = << >>
    /\ n_popped > 0
    /\ rev_count >= n_popped + 2
    /\ machine.energy > 0

\* The label map the call load_program(program, labels) supplies: none when
\* labels is left out.
SuppliedLabels == IF IsNone(last.args[2]) THEN EmptyDict ELSE Get(last.args[2])

\* C13: load_program(program, labels) leaves the machine with the program and
\* the label map of this call (no label of an earlier load stays resolvable),
\* PC 0, an empty execution log, halted false and metrics with all counts
\* zero.
LoadProgramReplacesProgramAndLabels ==
    DidLoad =>
        /\ machine.program = last.args[1]
        /\ machine.labels = SuppliedLabels
        /\ \A l \in DOMAIN machine.labels : l \in DOMAIN SuppliedLabels
        /\ machine.pc = 0
        /\ machine.exec_log = << >>
        /\ ~machine.halted
        /\ machine.metrics.reversible_count = 0
        /\ machine.metrics.irreversible_count = 0
        /\ DOMAIN machine.metrics.per_op_counts = {}

\* C14: load_program leaves the register file and the memory as they were.
LoadProgramKeepsRegistersAndMemory ==
    DidLoad =>
        /\ machine.registers = last.pre.registers
        /\ machine.memory = last.pre.memory

\* A second load on a machine whose earlier run left registers and memory
\* words behind.
LoadProgramKeepsRegistersAndMemoryWitness ==
    /\ DidLoad
    /\ loads = 2
    /\ machine.registers # Machine.registers
    /\ DOMAIN machine.memory # {}
    /\ last.pre.pc > 0

\* C15: step() on a machine that is not halted and whose PC is outside
\* [0, len(program)) raises IndexError and executes nothing; run() lets that
\* error through, so a run that goes past the last instruction of a program
\* without HALT ends with IndexError and never by returning.
PcOutOfRangeFails ==
    /\ (last.call = "step" /\ ~last.pre.halted /\ ~PcInRange(last.pre)) =>
          /\ last.raised = "IndexError"
          /\ machine = last.pre
    /\ (DidRun /\ ~last.pre.halted /\ ~PcInRange(last.pre)) =>
          /\ last.raised = "IndexError"
          /\ machine = last.pre
    /\ (DidRun /\ last.raised = "IndexError") =>
          /\ ~machine.halted
          /\ ~PcInRange(machine)
    /\ (DidRun /\ last.raised = ""
           /\ (IsNone(RunCap) \/ Get(last.ret) < Get(RunCap))) =>
          machine.halted

\* run() of a program without HALT, from its first instruction, ended with
\* IndexError at the PC after the last instruction.
PcOutOfRangeFailsWitness ==
    /\ DidRun
    /\ last.raised = "IndexError"
    /\ last.pre.pc = 0
    /\ machine.pc = Len(machine.program)
    /\ machine.program = ProgMixed
    /\ \A i \in 1 .. Len(machine.program) : machine.program[i].op # "HALT"

\* C16: every step() that fetches a BEQ whose label is not in the label map
\* raises ValueError.
UnknownLabelFails ==
    (DidStep /\ LastInstr.op = "BEQ"
       /\ Get(LastInstr.label) \notin DOMAIN last.pre.labels) =>
        last.raised = "ValueError"

\* C17: run(max_steps=k), k >= 0, makes at most k step() calls, returns when
\* the machine is halted or k steps are taken, and returns the number of
\* steps it made: 0, with the machine untouched, when it was already halted.
RunRespectsCap ==
    (DidRun /\ ~IsNone(RunCap) /\ last.raised = "") =>
        /\ Get(last.ret) <= Get(RunCap)
        /\ machine.halted \/ Get(last.ret) = Get(RunCap)
        /\ last.pre.halted => (Get(last.ret) = 0 /\ machine = last.pre)

\* C18: reverse_step never changes the halted flag; a machine that executed
\* HALT is still halted after any reverse step.
ReverseStepKeepsHalted ==
    last.call = "reverse_step" => machine.halted = last.pre.halted

\* An entry is undone on a machine that HALT has halted.
ReverseStepKeepsHaltedWitness ==
    /\ DidUndo
    /\ last.pre.halted
    /\ machine.halted
    /\ machine.pc < last.pre.pc

\* C19: a forward step of HALT sets halted, appends nothing to the execution
\* log, charges the irreversible energy cost, records one irreversible HALT
\* in metrics and leaves PC, registers and memory unchanged.
HaltStep ==
    (DidStep /\ LastInstr.op = "HALT") =>
        /\ last.raised = ""
        /\ machine.halted
        /\ machine.exec_log = last.pre.exec_log
        /\ machine.energy = last.pre.energy + irreversible_cost
        /\ machine.metrics.irreversible_count = last.pre.metrics.irreversible_count + 1
        /\ machine.metrics.reversible_count = last.pre.metrics.reversible_count
        /\ DOMAIN machine.metrics.per_op_counts
              = DOMAIN last.pre.metrics.per_op_counts \cup {"HALT"}
        /\ \A op \in DOMAIN machine.metrics.per_op_counts :
              machine.metrics.per_op_counts[op]
                = DictGet(last.pre.metrics.per_op_counts, op, 0)
                    + (IF op = "HALT" THEN 1 ELSE 0)
        /\ machine.pc = last.pre.pc
        /\ machine.registers = last.pre.registers
        /\ machine.memory = last.pre.memory

\* HALT is stepped after reversible and irreversible instructions.
HaltStepWitness ==
    /\ DidStep
    /\ LastInstr.op = "HALT"
    /\ machine.halted
    /\ machine.pc > 0
    /\ last.pre.exec_log # << >>
    /\ last.pre.metrics.irreversible_count > 0

\* The reverse-step semantics of an opcode on a register file: BEQ leaves it,
\* RXOR xors r[rs1] into r[rd], RADD subtracts r[rs1] from r[rd] modulo the
\* word, RSWAP swaps r[rd] and r[rs1].
Inverted(instr, r) ==
    IF instr.op = "BEQ" THEN r
    ELSE LET rd  == Get(instr.rd)
             rs1 == Get(instr.rs1)
         IN  [x \in Regs |->
                IF instr.op = "RXOR" /\ x = rd THEN Xor(r[rd], r[rs1])
                ELSE IF instr.op = "RADD" /\ x = rd THEN (r[rd] - r[rs1]) % Mod
                ELSE IF instr.op = "RSWAP" /\ x = rd THEN r[rs1]
                ELSE IF instr.op = "RSWAP" /\ x = rs1 THEN r[rd]
                ELSE r[x]]

\* C20: a reverse_step on a non-empty log removes the most recently appended
\* entry (pc, instr, payload) and no other, applies the inverse of that instr
\* only, and leaves PC equal to pc.
ReverseIsLifo ==
    (last.call = "reverse_step" /\ last.pre.exec_log # << >>) =>
        LET log   == last.pre.exec_log
            entry == log[Len(log)]
        IN  /\ machine.exec_log = SubSeq(log, 1, Len(log) - 1)
            /\ machine.pc = entry[1]
            /\ machine.registers = Inverted(entry[2], last.pre.registers)
            /\ machine.memory = last.pre.memory

\* The newest of several different entries is undone, and its undo changes a
\* register.
ReverseIsLifoWitness ==
    /\ DidUndo
    /\ Len(last.pre.exec_log) >= 3
    /\ Head(last.pre.exec_log) # Last(last.pre.exec_log)
    /\ machine.registers # last.pre.registers
    /\ machine.pc = Last(last.pre.exec_log)[1]

\* C27: a step of RXOR, RADD, RSWAP or BEQ that returns appends exactly one
\* entry (PC, instr, payload) to exec_log, with an empty payload for RXOR, RADD
\* and RSWAP and {taken, from_pc = PC} for BEQ, and moves PC to PC + 1, or to
\* the label's target for a taken BEQ; a step of ADD, SUB, LOAD or STORE
\* appends nothing and sets PC to PC + 1.
LogPushDiscipline ==
    (DidStep /\ last.raised = "") =>
        LET pre   == last.pre
            instr == LastInstr
            taken == pre.registers[Get(instr.rs1)] = pre.registers[Get(instr.rs2)]
        IN  CASE instr.op \in {"RXOR", "RADD", "RSWAP"} ->
                   /\ machine.exec_log = pre.exec_log \o << << pre.pc, instr, << >> >> >>
                   /\ machine.pc = pre.pc + 1
              [] instr.op = "BEQ" ->
                   /\ machine.exec_log = pre.exec_log \o
                        << << pre.pc, instr, << [taken |-> taken, from_pc |-> pre.pc] >> >> >>
                   /\ machine.pc = IF taken THEN pre.labels[Get(instr.label)]
                                             ELSE pre.pc + 1
              [] instr.op \in {"ADD", "SUB", "LOAD", "STORE"} ->
                   /\ machine.exec_log = pre.exec_log
                   /\ machine.pc = pre.pc + 1
              [] OTHER -> TRUE

\* A BEQ that is not taken is stepped after other entries were logged, on a
\* machine that has also stepped an instruction that logs nothing.
LogPushDisciplineWitness ==
    /\ DidStep
    /\ last.raised = ""
    /\ LastInstr.op = "BEQ"
    /\ machine.pc = last.pre.pc + 1
    /\ Len(machine.exec_log) >= 2
    /\ irr_steps > 0

\* C30: every step that returns charges the energy accumulator once, by
\* reversible_cost for RXOR, RADD, RSWAP and BEQ and by irreversible_cost for
\* ADD, SUB, LOAD, STORE and HALT; total_energy never decreases and is
\* reversible_cost times the reversible steps plus irreversible_cost times
\* the irreversible steps of the machine's lifetime.
EnergyAccounting ==
    /\ (DidStep /\ last.raised = "") =>
          machine.energy = last.pre.energy
              + (IF reversible(LastInstr) THEN reversible_cost ELSE irreversible_cost)
    /\ machine.energy >= last.pre.energy
    /\ machine.energy = reversible_cost * rev_steps + irreversible_cost * irr_steps

\* C28: the register file has num_regs registers, initially and after every
\* step, reverse_step, run and load_program, whatever num_regs the machine
\* was constructed with.
RegisterFileLength ==
    Cardinality(DOMAIN machine.registers) = machine.num_regs

\* ------------------------------------------------------------------------
\* Properties of the reversible memory
\* ------------------------------------------------------------------------

\* What load_word reads at every address of either memory.
SameWords(d1, d2) ==
    \A a \in (DOMAIN d1) \cup (DOMAIN d2) \cup Addrs :
        DictGet(d1, a, 0) = DictGet(d2, a, 0)

ExchangedTwice ==
    /\ rlast.call = "exchange"
    /\ rprev.call = "exchange"
    /\ rlast.addr = rprev.addr

\* C6: exchange(a, v) returns the prior mem[a] and sets mem[a] = v;
\* exchange(a, exchange(a, v)) returns v and leaves every word of the memory
\* as it was before the two calls; with mem[0x1000] = 100, exchange(0x1000, 42)
\* returns 100 and exchange(0x1000, 100) returns 42 and restores 100.
ExchangeSelfInverse ==
    /\ rlast.call = "exchange" =>
          /\ reg = DictGet(rlast.pre.data, rlast.addr, 0)
          /\ DictGet(rmem.data, rlast.addr, 0) = rlast.arg
    /\ ExchangedTwice =>
          /\ reg = rprev.arg
          /\ SameWords(rmem.data, rprev.pre.data)
    /\ (ExchangedTwice /\ rlast.addr = 4096 /\ rprev.arg = 42
          /\ DictGet(rprev.pre.data, 4096, 0) = 100) =>
          /\ rprev.ret = 100
          /\ rlast.ret = 42
          /\ DictGet(rmem.data, 4096, 0) = 100

\* Scenario S3: the two exchanges of 42 with mem[0x1000] = 100.
ExchangeSelfInverseWitness ==
    /\ ExchangedTwice
    /\ rlast.addr = 4096
    /\ rprev.arg = 42
    /\ rprev.ret = 100
    /\ reg = 42
    /\ DictGet(rmem.data, 4096, 0) = 100

\* C21: load_word of an address never written returns 0, store_word(addr, v)
\* followed by load_word(addr) returns v mod 2^32 (here 2^WordBits), for the
\* machine's Memory and for ReversibleMemory, and every word held in either
\* memory is in [0, 2^32).
MemoryWordsMasked ==
    /\ (last.call = "Memory.load_word" /\ last.args[1] \notin DOMAIN last.pre.memory) =>
          Get(last.ret) = 0
    /\ last.call = "Memory.store_word" =>
          Memory_load_word(machine.memory, last.args[1]) = last.args[2] % Mod
    /\ \A a \in DOMAIN machine.memory :
          0 <= machine.memory[a] /\ machine.memory[a] < Mod
    /\ (rlast.call = "load_word" /\ rlast.addr \notin DOMAIN rlast.pre.data) =>
          rlast.ret = 0
    /\ rlast.call = "store_word" =>
          load_word(rmem, rlast.addr).ret = rlast.arg % Mod
    /\ \A a \in DOMAIN rmem.data : 0 <= rmem.data[a] /\ rmem.data[a] < Mod

\* The configured ranges, by position, that contain the address classified.
Containing ==
    { i \in 1 .. Len(rlast.pre.regions) :
        rlast.pre.regions[i][1] <= rlast.addr /\ rlast.addr < rlast.pre.regions[i][2] }

DidGetRegionType == rlast.call = "get_region_type"

\* C25: get_region_type(addr) returns the tag of the first configured range,
\* in configure_region call order, with start <= addr < end, also when a
\* later range contains addr, and the default tag when no range contains
\* addr.
RegionClassification ==
    DidGetRegionType =>
        /\ rmem = rlast.pre
        /\ Containing = {} => rlast.ret = rlast.pre.default_type
        /\ \A i \in Containing :
              (\A j \in Containing : i <= j) => rlast.ret = rlast.pre.regions[i][3]

\* An address inside two ranges with different tags is classified.
RegionClassificationWitness ==
    /\ DidGetRegionType
    /\ Cardinality(Containing) = 2
    /\ rlast.pre.regions[1][3] # rlast.pre.regions[2][3]
    /\ rlast.ret = rlast.pre.regions[1][3]

\* The start of a range is inside it: the address is the start of the only
\* range that contains it.
RegionClassificationStartWitness ==
    /\ DidGetRegionType
    /\ \E i \in Containing :
          Containing = {i} /\ rlast.pre.regions[i][1] = rlast.addr

\* The end of a range is outside it: ranges are configured, the address is
\* the end of one and no range contains it.
RegionClassificationEndWitness ==
    /\ DidGetRegionType
    /\ Containing = {}
    /\ \E i \in 1 .. Len(rlast.pre.regions) : rlast.pre.regions[i][2] = rlast.addr
    /\ rlast.ret = "STANDARD"

\* ------------------------------------------------------------------------
\* Properties of the history buffer
\* ------------------------------------------------------------------------

\* The entries of the buffer that are of one kind.
RECURSIVE CountKind(_, _)
CountKind(entries, kind) ==
    IF entries = << >> THEN 0
    ELSE (IF entries[1].entry_type = kind THEN 1 ELSE 0) + CountKind(Tail(entries), kind)

\* C7: current_bits is the sum over the entries in the buffer of 33 for a
\* BRANCH_DECISION, 32 for a BRANCH_SOURCE, 8 for a REVERSIBLE_OP and 0 for an
\* IRREVERSIBLE_OP, and a push never decreases max_bits.
HistoryBitAccounting ==
    /\ current_bits(hist) = 33 * CountKind(hist.entries, "BRANCH_DECISION")
                          + 32 * CountKind(hist.entries, "BRANCH_SOURCE")
                          + 8 * CountKind(hist.entries, "REVERSIBLE_OP")
                          + 0 * CountKind(hist.entries, "IRREVERSIBLE_OP")
    /\ hlast.call = "push" => hist.max_bits >= hlast.pre.max_bits

\* A push of a branch decision, after a pop, that raises the high-water mark.
HistoryBitAccountingWitness ==
    /\ hlast.call = "push"
    /\ total_entries_ever(hist) > current_depth(hist)
    /\ CountKind(hist.entries, "BRANCH_DECISION") > 0
    /\ hist.max_bits > hlast.pre.max_bits
    /\ current_bits(hist) = hist.max_bits

\* ------------------------------------------------------------------------
\* Properties of the debugger
\* ------------------------------------------------------------------------

\* The watchpoint's predicate is true of the machine's registers.
Trips(i) ==
    condition(dbg.watchpoints[i].condition,
              machine.registers[dbg.watchpoints[i].register])

RanToViolation == dlast.call = "run_until_violation" /\ ~IsNone(dlast.ret)

\* C8: the watchpoint run_until_violation returns, and appends to the
\* violations log, is the earliest added among those whose predicate is true
\* after the step; no later one is reported for that step.
WatchpointOrdering ==
    RanToViolation =>
        LET i == Get(dlast.ret)
        IN  /\ Trips(i)
            /\ \A j \in 1 .. (i - 1) : ~Trips(j)
            /\ dbg.violations = Append(dlast.pre.violations,
                   << dbg.step_count, i, machine.registers[dbg.watchpoints[i].register] >>)

\* Two watchpoints trip after the same step and the first is returned.
WatchpointOrderingWitness ==
    /\ RanToViolation
    /\ Get(dlast.ret) = 1
    /\ Len(dbg.watchpoints) = 2
    /\ Trips(2)
    /\ dbg.watchpoints[1] # dbg.watchpoints[2]

\* The machine after k reverse_step calls.
RECURSIVE Reversed(_, _)
Reversed(m, k) == IF k = 0 THEN m ELSE Reversed(reverse_step(m), k - 1)

\* The machine has executed the HALT that ends its program and nothing has
\* been undone since.
RanToHalt(m) ==
    /\ m.halted
    /\ m.pc = Len(m.program) - 1
    /\ m.metrics.reversible_count = Len(m.exec_log)

DidFind == dlast.call = "find_corruption_source"

\* The watched register after k undos from the machine the search started on.
WatchedAfter(k) == Reversed(dlast.pre_machine, k).registers[dlast.arg]

\* The log entry the k-th undo removes.
UndoneEntry(k) ==
    dlast.pre_machine.exec_log[Len(dlast.pre_machine.exec_log) - k + 1]

\* C22: find_corruption_source undoes one log entry at a time and reports the
\* first undone entry that changes the watched register, with that entry's PC
\* and instruction and the register's values after (value_before) and before
\* (value_after) the undo, which differ; when no undo changes the register
\* it undoes the whole log and returns nothing.  On make_buggy_program run to
\* HALT it reports the RADD at PC 5 after one reverse step.
CorruptionSource ==
    DidFind =>
        LET n == Len(dlast.pre_machine.exec_log)
            k == dlast.steps
        IN  /\ dlast.raised = ""
            /\ k \in 0 .. n
            /\ machine = Reversed(dlast.pre_machine, k)
            /\ \A j \in 1 .. (k - 1) : WatchedAfter(j) = WatchedAfter(j - 1)
            /\ dbg = dlast.pre
            /\ IF IsNone(dlast.ret)
               THEN /\ k = n
                    /\ k > 0 => WatchedAfter(k) = WatchedAfter(k - 1)
                    /\ machine.exec_log = << >>
               ELSE /\ k >= 1
                    /\ WatchedAfter(k) # WatchedAfter(k - 1)
                    /\ Get(dlast.ret) =
                         CorruptionReport(UndoneEntry(k)[1], UndoneEntry(k)[2], dlast.arg,
                                          WatchedAfter(k), WatchedAfter(k - 1), k)
                    /\ Get(dlast.ret).value_before # Get(dlast.ret).value_after
            /\ ( /\ dlast.pre_machine.program = make_buggy_program
                 /\ RanToHalt(dlast.pre_machine)
                 /\ origin = Machine.registers
                 /\ dlast.arg = 1 )
               => dlast.ret = Some(CorruptionReport(5, R("RADD", 1, 3), 1, 12, 15, 1))

\* make_buggy_program has run to HALT and the search reports the RADD at
\* PC 5 after one reverse step.
CorruptionSourceWitness ==
    /\ DidFind
    /\ dlast.pre_machine.program = make_buggy_program
    /\ RanToHalt(dlast.pre_machine)
    /\ origin = Machine.registers
    /\ dlast.arg = 1
    /\ ~IsNone(dlast.ret)
    /\ Get(dlast.ret).pc = 5
    /\ Get(dlast.ret).instruction.op = "RADD"
    /\ dlast.steps = 1

\* A search that undoes more than one entry before it reports.
CorruptionSourceSkipsWitness ==
    /\ DidFind
    /\ ~IsNone(dlast.ret)
    /\ dlast.steps >= 2

\* A search that exhausts a non-empty log and reports nothing.
CorruptionSourceNothingWitness ==
    /\ DidFind
    /\ IsNone(dlast.ret)
    /\ dlast.steps >= 1

\* The machine after k step() calls that return.
RECURSIVE Stepped(_, _)
Stepped(m, k) == IF k = 0 THEN m ELSE Stepped(step(m).m, k - 1)

\* Some watchpoint's predicate is true of the registers of m.
SomeTrips(m) ==
    \E i \in 1 .. Len(dlast.pre.watchpoints) :
        condition(dlast.pre.watchpoints[i].condition,
                  m.registers[dlast.pre.watchpoints[i].register])

DidRunUntilViolation == dlast.call = "run_until_violation"

\* C23: run_until_violation(max_steps) returns a watchpoint exactly when a
\* watchpoint predicate is true after one of the steps it executed, and it
\* returns at the first such step; a call that returns nothing leaves the
\* machine halted or step_count at max_steps or beyond.  It executes no step
\* once step_count >= max_steps, and for every machine step step_count
\* grows by one and one depth snapshot is recorded.
RunUntilViolationContract ==
    DidRunUntilViolation =>
        LET k   == dlast.steps
            pre == dlast.pre
        IN  /\ dbg.step_count = pre.step_count + k
            /\ Len(dbg.history.depth_timeline) = Len(pre.history.depth_timeline) + k
            /\ \A j \in 1 .. k :
                  dbg.history.depth_timeline[Len(pre.history.depth_timeline) + j][1]
                      = pre.step_count + j
            /\ k > 0 => pre.step_count + k <= dlast.arg
            /\ pre.step_count >= dlast.arg => k = 0 /\ machine = dlast.pre_machine
            /\ dbg.watchpoints = pre.watchpoints
            /\ \A j \in 1 .. (k - 1) : ~SomeTrips(Stepped(dlast.pre_machine, j))
            /\ dlast.raised = "" =>
                  /\ machine = Stepped(dlast.pre_machine, k)
                  /\ ~IsNone(dlast.ret) <=> (k > 0 /\ SomeTrips(machine))
                  /\ IsNone(dlast.ret) =>
                        machine.halted \/ dbg.step_count >= dlast.arg

\* A run that returns a watchpoint after more than one step, on a machine
\* that is not halted and below max_steps.
RunUntilViolationContractWitness ==
    /\ DidRunUntilViolation
    /\ ~IsNone(dlast.ret)
    /\ dlast.steps >= 2
    /\ ~machine.halted
    /\ dbg.step_count < dlast.arg

\* A run that returns nothing because step_count reached max_steps.
RunUntilViolationCapWitness ==
    /\ DidRunUntilViolation
    /\ IsNone(dlast.ret)
    /\ dlast.raised = ""
    /\ dlast.steps >= 1
    /\ ~machine.halted
    /\ dbg.step_count = dlast.arg
    /\ Len(dbg.watchpoints) > 0

\* A run that returns nothing without a step, a watchpoint predicate being
\* true of the machine.
RunUntilViolationNoStepWitness ==
    /\ DidRunUntilViolation
    /\ IsNone(dlast.ret)
    /\ dlast.steps = 0
    /\ SomeTrips(machine)

\* The history entry an instruction fetched at pc is recorded as, if any.
Classified(pc, instr) ==
    IF instr.op = "BEQ"
    THEN << HistoryEntry(pc, "BEQ", "BRANCH_DECISION", Some([from_pc |-> pc])) >>
    ELSE IF instr.op \in {"RXOR", "RADD", "RSWAP"}
    THEN << HistoryEntry(pc, instr.op, "REVERSIBLE_OP", None) >>
    ELSE << >>

\* The entries of the instructions the next k step() calls on m fetch.
RECURSIVE Classification(_, _)
Classification(m, k) ==
    IF k = 0 \/ IsNone(Fetched(m)) THEN << >>
    ELSE Classified(m.pc, Get(Fetched(m))) \o Classification(step(m).m, k - 1)

\* The step() calls of the last run_until_violation, the one that raised
\* included.
StepCalls == dlast.steps + (IF dlast.raised # "" THEN 1 ELSE 0)

\* C24: for every instruction run_until_violation executes, a BEQ pushes one
\* BRANCH_DECISION entry of 33 bits, an RXOR, RADD or RSWAP one REVERSIBLE_OP
\* entry of 8 bits, and ADD, SUB, LOAD, STORE and HALT push nothing; the
\* buffer never holds an IRREVERSIBLE_OP or BRANCH_SOURCE entry.  After an
\* execution of exactly one BEQ, one RADD and HALT the buffer reports
\* current_depth = 2, current_bits = 41, max_depth = 2 and max_bits = 41.
HistoryClassification ==
    /\ \A i \in 1 .. Len(dbg.history.entries) :
          LET e == dbg.history.entries[i]
          IN  \/ e.entry_type = "BRANCH_DECISION" /\ e.op_name = "BEQ" /\ bit_cost(e) = 33
              \/ /\ e.entry_type = "REVERSIBLE_OP"
                 /\ e.op_name \in {"RXOR", "RADD", "RSWAP"}
                 /\ bit_cost(e) = 8
    /\ DidRunUntilViolation =>
          dbg.history.entries =
              dlast.pre.history.entries \o Classification(dlast.pre_machine, StepCalls)
    /\ ( /\ DidRunUntilViolation
         /\ machine.program = ProgBranchRadd
         /\ RanToHalt(machine)
         /\ dbg.step_count = 3 )
       => /\ current_depth(dbg.history) = 2
          /\ current_bits(dbg.history) = 41
          /\ dbg.history.max_depth = 2
          /\ dbg.history.max_bits = 41

\* One BEQ, one RADD and HALT have been executed.
HistoryClassificationWitness ==
    /\ DidRunUntilViolation
    /\ machine.program = ProgBranchRadd
    /\ RanToHalt(machine)
    /\ dbg.step_count = 3
    /\ current_bits(dbg.history) = 41

\* A run has executed irreversible instructions next to recorded ones.
HistoryClassificationSkipsWitness ==
    /\ DidRunUntilViolation
    /\ dlast.steps > Len(dbg.history.entries) - Len(dlast.pre.history.entries)
    /\ Len(dbg.history.entries) > Len(dlast.pre.history.entries)

\* ------------------------------------------------------------------------
\* Properties of the parser
\* ------------------------------------------------------------------------

DidParse == plast.call = "parse" /\ plast.raised = ""

\* The line emits an instruction.
Emits(line) == line.kind = "code" /\ line.parts # << >>

\* The lines of the text parsed that declare the label.
Declarations(label) ==
    { i \in 1 .. Len(plast.text) :
        plast.text[i].kind = "label" /\ plast.text[i].name = label }

\* The instructions emitted for the lines before line i.
EmittedBefore(i) == Cardinality({ j \in 1 .. (i - 1) : Emits(plast.text[j]) })

\* C26: after a parse that accepts its text, every label of the label map
\* maps to the index, in the list returned, of the instruction that follows
\* the label's declaration, and that instruction is in the list.
LabelRoundTrip ==
    DidParse =>
        \A label \in DOMAIN parser.labels :
            \E i \in Declarations(label) :
                /\ parser.labels[label] = EmittedBefore(i)
                /\ \E j \in (i + 1) .. Len(plast.text) : Emits(plast.text[j])
                /\ parser.labels[label] < Len(Get(plast.ret))

\* ------------------------------------------------------------------------
\* Properties of the memory controller
\* ------------------------------------------------------------------------

\* C29: after any sequence of hot_load, hot_store and cold_exchange calls,
\* hot_requests is the number of hot_load and hot_store calls, cold_requests
\* the number of cold_exchange calls, and total_cycles is
\* hot_requests * hot_latency + cold_requests * cold_latency; each call
\* returns the latency of its path next to what load_word, store_word or
\* exchange of the underlying memory produces.
ControllerAccounting ==
    /\ ctrl.hot_requests = hot_calls
    /\ ctrl.cold_requests = cold_calls
    /\ ctrl.total_cycles =
          ctrl.hot_requests * ctrl.hot_latency + ctrl.cold_requests * ctrl.cold_latency
    /\ clast.call = "hot_load" =>
          /\ clast.ret = << load_word(clast.pre.memory, clast.args[1]).ret,
                            clast.pre.hot_latency >>
          /\ ctrl.memory = load_word(clast.pre.memory, clast.args[1]).obj
    /\ clast.call = "hot_store" =>
          /\ clast.ret = << clast.pre.hot_latency >>
          /\ ctrl.memory = store_word(clast.pre.memory, clast.args[1], clast.args[2])
    /\ clast.call = "cold_exchange" =>
          /\ clast.ret = << exchange(clast.pre.memory, clast.args[1], clast.args[2]).ret,
                            clast.pre.cold_latency >>
          /\ ctrl.memory = exchange(clast.pre.memory, clast.args[1], clast.args[2]).obj

\* Requests of both paths have been made on a controller whose paths have
\* different latencies, the last one an exchange that returns a stored word.
ControllerAccountingWitness ==
    /\ hot_calls >= 2
    /\ cold_calls >= 1
    /\ ctrl.hot_latency # ctrl.cold_latency
    /\ clast.call = "cold_exchange"
    /\ clast.ret[1] = 100
    /\ ctrl.total_cycles = hot_calls * ctrl.hot_latency + cold_calls * ctrl.cold_latency

\* ------------------------------------------------------------------------
\* Properties of failing steps, halting, the log and the counters
\* ------------------------------------------------------------------------

StepRaised == last.call = "step" /\ last.raised # ""

\* C31: whenever step() raises, the registers, PC, halted flag, execution
\* log, energy accumulator and metrics are as they were before the call.
FailedStepChangesNothing ==
    StepRaised =>
        /\ machine.registers = last.pre.registers
        /\ machine.pc = last.pre.pc
        /\ machine.halted = last.pre.halted
        /\ machine.exec_log = last.pre.exec_log
        /\ machine.energy = last.pre.energy
        /\ machine.metrics = last.pre.metrics

\* The machine was halted when the last call was made.
CalledHalted == last.call \in {"step", "reverse_step", "run"} /\ last.pre.halted

\* A halted machine whose PC has been moved outside the program.
HaltedAt(pc) == [machine EXCEPT !.halted = TRUE, !.pc = pc]

\* C32: once halted is true, step() is a silent no-op (no error even when the
\* PC is out of range; registers, PC, log, energy and metrics unchanged),
\* run() returns 0, and halted stays true under step, reverse_step and run
\* until load_program is called; HALT is charged and counted at most once
\* per load.
HaltedIsAbsorbing ==
    /\ CalledHalted => machine.halted /\ last.raised = ""
    /\ (CalledHalted /\ last.call = "step") => machine = last.pre
    /\ (CalledHalted /\ last.call = "run") =>
          /\ last.ret = Some(0)
          /\ machine = last.pre
    /\ \A pc \in {-1, Len(machine.program), Len(machine.program) + 1} :
          /\ step(HaltedAt(pc)) = Returned(HaltedAt(pc))
          /\ run(HaltedAt(pc), None) = RunResult(HaltedAt(pc), "", 0)
    /\ DictGet(machine.metrics.per_op_counts, "HALT", 0) <= 1
    /\ (last.call = "load_program" /\ last.pre.halted) => ~machine.halted

\* A halted machine has been stepped, run and reversed, the reverse step
\* popping an entry, and is stepped again.
HaltedIsAbsorbingWitness ==
    /\ CalledHalted
    /\ last.call = "step"
    /\ n_popped > 0
    /\ fwd_count >= 2
    /\ Len(machine.exec_log) < machine.metrics.reversible_count
    /\ DictGet(machine.metrics.per_op_counts, "HALT", 0) = 1

\* run() on a halted machine.
HaltedRunWitness ==
    /\ CalledHalted
    /\ last.call = "run"
    /\ last.args = << None >>
    /\ last.ret = Some(0)

\* reverse_step pops an entry of a halted machine.
HaltedReverseWitness ==
    /\ CalledHalted
    /\ last.call = "reverse_step"
    /\ Len(machine.exec_log) < Len(last.pre.exec_log)

\* C33: in every reachable state each log entry (pc, instr, payload) has
\* 0 <= pc < len(program), instr is program[pc] and is an RXOR, RADD, RSWAP
\* or BEQ, and the payload is empty unless instr is a BEQ, whose payload has
\* from_pc = pc and taken telling whether r[rs1] = r[rs2] held when it
\* executed.
LogWellFormed ==
    /\ Len(shadow) = Len(machine.exec_log)
    /\ \A i \in 1 .. Len(machine.exec_log) :
          LET pc      == machine.exec_log[i][1]
              instr   == machine.exec_log[i][2]
              payload == machine.exec_log[i][3]
              r       == shadow[i].before.registers
          IN  /\ 0 <= pc /\ pc < Len(machine.program)
              /\ instr = machine.program[pc + 1]
              /\ instr.op \in {"RXOR", "RADD", "RSWAP", "BEQ"}
              /\ instr.op # "BEQ" => payload = << >>
              /\ instr.op = "BEQ" =>
                    /\ payload # << >>
                    /\ Get(payload).from_pc = pc
                    /\ Get(payload).taken = (r[Get(instr.rs1)] = r[Get(instr.rs2)])

\* The log holds a BEQ that was taken, one that was not, and an entry that
\* is no BEQ, on a machine that has been reloaded.
LogWellFormedWitness ==
    /\ loads = 2
    /\ \E i, j, k \in 1 .. Len(machine.exec_log) :
          /\ machine.exec_log[i][2].op = "BEQ" /\ Get(machine.exec_log[i][3]).taken
          /\ machine.exec_log[j][2].op = "BEQ" /\ ~Get(machine.exec_log[j][3]).taken
          /\ machine.exec_log[k][2].op # "BEQ"

DidReverse == last.call = "reverse_step"

\* C34: reverse_step leaves energy.total_energy, the metrics counters
\* (reversible_count, irreversible_count, per_op_counts) and all memory
\* contents unchanged; only registers, PC and the execution log can change.
ReverseStepFrame ==
    DidReverse =>
        /\ machine.energy = last.pre.energy
        /\ machine.metrics = last.pre.metrics
        /\ machine.memory = last.pre.memory
        /\ machine = [last.pre EXCEPT !.registers = machine.registers,
                                      !.pc        = machine.pc,
                                      !.exec_log  = machine.exec_log]

\* reverse_step has popped an entry and changed a register on a machine that
\* has stored to memory and been charged for both kinds of step.
ReverseStepFrameWitness ==
    /\ DidReverse
    /\ Len(machine.exec_log) < Len(last.pre.exec_log)
    /\ machine.registers # last.pre.registers
    /\ DOMAIN machine.memory # {}
    /\ machine.metrics.reversible_count > 0
    /\ machine.metrics.irreversible_count > 0
    /\ machine.energy > 0

\* C35: reversible_count + irreversible_count equals the sum of per_op_counts,
\* and len(exec_log) equals reversible_count minus the number of reverse_step
\* calls since the last load_program that popped an entry.
MetricsConsistency ==
    /\ machine.metrics.reversible_count + machine.metrics.irreversible_count
          = sum_values(machine.metrics.per_op_counts)
    /\ Len(machine.exec_log) = machine.metrics.reversible_count - n_popped

\* Both kinds of step have been recorded under at least two opcodes, a
\* reverse_step has popped an entry, and the log is not empty.
MetricsConsistencyWitness ==
    /\ machine.metrics.reversible_count > 0
    /\ machine.metrics.irreversible_count > 0
    /\ Cardinality(DOMAIN machine.metrics.per_op_counts) >= 2
    /\ n_popped > 0
    /\ Len(machine.exec_log) > 0

\* C36: after any sequence of run_until_violation and find_corruption_source
\* calls, history.current_depth equals len(machine.exec_log) and the i-th
\* history entry has the pc and the opcode name of the i-th log entry.
HistoryMirrorsLog ==
    /\ current_depth(dbg.history) = Len(machine.exec_log)
    /\ \A i \in 1 .. Len(machine.exec_log) :
          i <= current_depth(dbg.history) =>
             /\ dbg.history.entries[i].pc = machine.exec_log[i][1]
             /\ dbg.history.entries[i].op_name = machine.exec_log[i][2].op

\* The same, for machines whose log has never been popped since the load.
HistoryMirrorsUnpoppedLog ==
    Len(machine.exec_log) = machine.metrics.reversible_count => HistoryMirrorsLog

\* The report of the last search, when it returned one.
DidReport == DidFind /\ ~IsNone(dlast.ret)

\* C37: a report's instruction is never BEQ: it is an RXOR or RADD whose rd
\* is the watched register, or an RSWAP whose rd or rs1 is; machine.pc
\* equals report.pc when the search returns, and steps_back is the number of
\* log entries the search popped.
ReportShape ==
    DidReport =>
        LET report == Get(dlast.ret)
            instr  == report.instruction
        IN  /\ report.register = dlast.arg
            /\ instr.op # "BEQ"
            /\ \/ /\ instr.op \in {"RXOR", "RADD"}
                  /\ instr.rd = Some(report.register)
               \/ /\ instr.op = "RSWAP"
                  /\ report.register \in {Get(instr.rd), Get(instr.rs1)}
            /\ machine.pc = report.pc
            /\ report.steps_back
                  = Len(dlast.pre_machine.exec_log) - Len(machine.exec_log)

\* A search that undid a BEQ before it reported.
ReportShapeWitness ==
    /\ DidReport
    /\ Get(dlast.ret).steps_back >= 2
    /\ \E k \in 1 .. (Get(dlast.ret).steps_back - 1) : UndoneEntry(k)[2].op = "BEQ"

\* A search that reports an RSWAP whose rs1 is the watched register.
ReportShapeSwapWitness ==
    /\ DidReport
    /\ Get(dlast.ret).instruction.op = "RSWAP"
    /\ Get(dlast.ret).instruction.rs1 = Some(dlast.arg)
    /\ Get(dlast.ret).instruction.rd # Some(dlast.arg)

\* A search that reports an RXOR.
ReportShapeXorWitness ==
    /\ DidReport
    /\ Get(dlast.ret).instruction.op = "RXOR"

DidPop == hlast.call = "pop"

\* C38: max_depth >= current_depth and max_bits >= current_bits always, and
\* max_depth is the largest depth the buffer has ever reached; pop never
\* changes max_depth, max_bits, the cumulative counts or the bit totals, so
\* total_entries is the number of pushes ever made; a pop on an empty buffer
\* returns nothing and changes nothing.
HighWaterMarks ==
    /\ hist.max_depth >= current_depth(hist)
    /\ hist.max_bits >= current_bits(hist)
    /\ hist.max_depth = peak_depth
    /\ total_entries_ever(hist) = pushes
    /\ DidPop =>
          /\ hist.max_depth = hlast.pre.max_depth
          /\ hist.max_bits = hlast.pre.max_bits
          /\ hist.counts_by_type = hlast.pre.counts_by_type
          /\ hist.bits_by_type = hlast.pre.bits_by_type
          /\ hlast.pre.entries = << >> => (hlast.ret = None /\ hist = hlast.pre)
          /\ hlast.pre.entries # << >> =>
                /\ hlast.ret = Some(Last(hlast.pre.entries))
                /\ hist = [hlast.pre EXCEPT !.entries = Front(hlast.pre.entries)]

\* A pop has left the buffer below both of its high-water marks, with fewer
\* entries than were ever pushed.
HighWaterMarksWitness ==
    /\ DidPop
    /\ hlast.pre.entries # << >>
    /\ hist.max_depth > current_depth(hist)
    /\ hist.max_bits > current_bits(hist)
    /\ pushes > current_depth(hist)
    /\ current_depth(hist) > 0

\* A pop of an empty buffer that has been pushed to before.
HighWaterMarksEmptyPopWitness ==
    /\ DidPop
    /\ hlast.pre.entries = << >>
    /\ pushes > 0
    /\ hist.max_bits > 0

\* C39: find_corruption_source returns after at most len(exec_log) reverse
\* steps, and when it returns nothing the log is empty; each reverse_step on
\* a non-empty log leaves it one entry shorter, so repeating it empties the
\* log, after which it changes nothing.
ReverseWalkTerminates ==
    /\ DidFind =>
          /\ dlast.steps <= Len(dlast.pre_machine.exec_log)
          /\ dlast.steps = Len(dlast.pre_machine.exec_log) - Len(machine.exec_log)
          /\ IsNone(dlast.ret) => machine.exec_log = << >>
    /\ LET n == Len(machine.exec_log)
       IN  /\ \A k \in 1 .. n : Len(Reversed(machine, k).exec_log) = n - k
           /\ Reversed(machine, n + 1) = Reversed(machine, n)
           /\ Reversed(machine, n + 2) = Reversed(machine, n)

\* A search that popped every entry of a log of three or more and returned
\* nothing, one of the entries being a BEQ.
ReverseWalkTerminatesWitness ==
    /\ DidFind
    /\ IsNone(dlast.ret)
    /\ dlast.steps >= 3
    /\ dlast.steps = Len(dlast.pre_machine.exec_log)
    /\ \E k \in 1 .. dlast.steps : UndoneEntry(k)[2].op = "BEQ"

\* A search that stopped with entries left in the log.
ReverseWalkStopsEarlyWitness ==
    /\ DidReport
    /\ machine.exec_log # << >>
    /\ dlast.steps < Len(dlast.pre_machine.exec_log)

\* C40: a run_until_violation call that executes no step returns nothing and
\* appends nothing to violations, even if a watchpoint predicate is true of
\* the machine; every call that returns a watchpoint has executed a step and
\* appends exactly one record (step_count, watchpoint, register value), and
\* no other call appends any.
WatchpointsAfterStep ==
    DidRunUntilViolation =>
        /\ dlast.steps = 0 =>
              /\ IsNone(dlast.ret)
              /\ dbg.violations = dlast.pre.violations
        /\ IsNone(dlast.ret) => dbg.violations = dlast.pre.violations
        /\ ~IsNone(dlast.ret) =>
              LET i == Get(dlast.ret)
              IN  /\ dlast.steps >= 1
                  /\ i \in 1 .. Len(dbg.watchpoints)
                  /\ dbg.violations =
                        Append(dlast.pre.violations,
                               << dbg.step_count, i,
                                  machine.registers[dbg.watchpoints[i].register] >>)

\* A call that executes no step on a machine that is not halted, after an
\* earlier call has returned a watchpoint whose predicate is still true.
WatchpointsAfterStepWitness ==
    /\ DidRunUntilViolation
    /\ dlast.steps = 0
    /\ dlast.raised = ""
    /\ ~machine.halted
    /\ SomeTrips(machine)
    /\ Len(dbg.violations) >= 1

\* A call that returns a watchpoint and appends a second record.
WatchpointsAfterStepSecondWitness ==
    /\ DidRunUntilViolation
    /\ ~IsNone(dlast.ret)
    /\ Len(dbg.violations) = 2
    /\ Len(dlast.pre.violations) = 1

=============================================================================
